---- MODULE Spec2Model ----
(***************************************************************************)
(* A model of ducky's interactive table viewer: ApplicationState           *)
(* (src/src/app/state.rs) and the key handlers of App (src/src/ui/mod.rs). *)
(* The App struct is the record `app` and its field app.state is the       *)
(* ApplicationState struct; every method is an operator from records to    *)
(* records, and every key handler composes them the way its body does.     *)
(* Indices (scroll_x, selected_row, reorder indices, ...) are 0-based as   *)
(* in the source; Option<T> is a sequence of length 0 (None) or 1 (Some).  *)
(***************************************************************************)
EXTENDS Integers, Sequences, FiniteSets, TLC

VARIABLES
    app,        \* the App struct; app.state is the ApplicationState struct
    schema,     \* the connected database: table name -> column names, in schema order
    now,        \* the monotonic clock std::time::Instant::now() reads, in ms
    last_op,    \* the key or method call that produced this state (history)
    call        \* the last call of a free function of ui/mod.rs: its arguments and result

vars == <<app, schema, now, last_op, call>>

\* App.state
state == app.state

-----------------------------------------------------------------------------
(* Bounds of the model *)

\* rows held by every table of the modelled database
MaxRows == 3
\* largest table-area height a render reports (the smallest is 0)
MaxAreaHeight == 5
\* longest predicate text typed into a filter search
MaxSearchLen == 1
\* the longest sort chain the sort keys build
MaxChain == 1
\* the most columns the filter key puts a filter on
MaxFilters == 1

-----------------------------------------------------------------------------
(* Option<T> and Vec<T> helpers *)

None == <<>>
Some(x) == <<x>>
IsSome(o) == o # <<>>
Unwrap(o) == o[1]

\* Vec::len, Vec::get with a 0-based index
At(seq, i) == seq[i + 1]
InRange(seq, i) == i >= 0 /\ i < Len(seq)

\* Iterator::position: the 0-based index of the first element equal to x
Position(seq, x) ==
    IF \E i \in 1..Len(seq) : seq[i] = x
    THEN Some((CHOOSE i \in 1..Len(seq) :
                  seq[i] = x /\ \A j \in 1..(i - 1) : seq[j] # x) - 1)
    ELSE None

\* Vec::remove(i) and Vec::insert(i, x), 0-based
VecRemove(seq, i) == SubSeq(seq, 1, i) \o SubSeq(seq, i + 2, Len(seq))
VecInsert(seq, i, x) == SubSeq(seq, 1, i) \o <<x>> \o SubSeq(seq, i + 1, Len(seq))

\* Iterator::filter(..).collect()
RECURSIVE FilterSeq(_, _)
FilterSeq(seq, keep) ==
    IF seq = <<>> THEN <<>>
    ELSE (IF Head(seq) \in keep THEN <<Head(seq)>> ELSE <<>>)
         \o FilterSeq(Tail(seq), keep)

Range(seq) == {seq[i] : i \in 1..Len(seq)}

\* usize::saturating_sub
SatSub(a, b) == IF a >= b THEN a - b ELSE 0
Max(a, b) == IF a >= b THEN a ELSE b
Min(a, b) == IF a <= b THEN a ELSE b

-----------------------------------------------------------------------------
(* The database the application is connected to (the external engine) *)

TableNames == {"t1", "t2"}

\* a database with two narrow tables that share the column name "c"
SmallSchema == [t \in TableNames |->
                  IF t = "t1" THEN <<"a", "b", "c">> ELSE <<"c", "d">>]

\* a database whose first table is wider than the 5 columns
\* navigate_extreme_right assumes to be on screen
WideSchema == [t \in TableNames |->
                 IF t = "t1" THEN <<"c1", "c2", "c3", "c4", "c5", "c6">>
                 ELSE <<"c1">>]

\* the text of the cell at row r (1-based) of column c: a string is the
\* sequence of its characters; row 2 holds one long value in every table's
\* second column, every other cell is a single character
CellText(r, c) ==
    IF r = 2 /\ c \in {"b", "d", "c2"}
    THEN [i \in 1..9 |-> "x"]
    ELSE <<"x">>

\* the rows the engine returns for `SELECT <columns> FROM t`, cut to n rows
EngineRows(columns, n) ==
    [r \in 1..n |-> [k \in 1..Len(columns) |-> CellText(r, columns[k])]]

\* What the engine answers to one refresh: whether `SELECT * .. LIMIT 0`
\* (get_table_column_names) succeeds, whether the data query succeeds, and
\* how many rows pass the WHERE clause.  A query that is not made, or that
\* fails, returns no rows.
EngineAnswers ==
    {ans \in [names_ok : BOOLEAN, query_ok : BOOLEAN, nrows : 0..MaxRows] :
        /\ ~ans.names_ok => ~ans.query_ok
        /\ ~ans.query_ok => ans.nrows = 0}

\* The answers to a query without a WHERE clause: every row of the table
UnfilteredAnswers == {ans \in EngineAnswers : ans.query_ok => ans.nrows = MaxRows}

-----------------------------------------------------------------------------
(* ApplicationState::new and the state aggregate *)

LeftPanels == {"DatabaseList", "TableList"}

\* SortDirection
Ascending == "Ascending"
Descending == "Descending"

\* SortColumnSpec
SortColumnSpec(name, dir) == [column_name |-> name, direction |-> dir]

\* ApplicationState::new(), followed by select_database for the database
\* given on the command line (App::new_with_database)
NewState ==
    [ active_panel               |-> "DatabaseList",
      last_left_panel            |-> "DatabaseList",
      panel_flash_timer          |-> None,
      is_entering_database_name  |-> FALSE,
      new_database_name          |-> <<>>,
      current_state              |-> "DatabaseBrowser",
      is_creating_table          |-> FALSE,
      table_creation_step        |-> "EnteringTableName",
      new_table_name             |-> <<>>,
      notifications              |-> {},
      selected_database          |-> Some("db"),
      selected_table             |-> None,
      table_data                 |-> None,
      scroll_x                   |-> 0,
      scroll_y                   |-> 0,
      selected_row               |-> 0,
      selected_column            |-> None,
      last_table_area_height     |-> 20,
      database_dropdown_expanded |-> FALSE,
      dropdown_selected_index    |-> 0,
      expanded_columns           |-> {},
      sort_columns               |-> <<>>,
      is_searching               |-> FALSE,
      search_column              |-> None,
      search_text                |-> <<>>,
      search_syntax_valid        |-> TRUE,
      search_debounce_timer      |-> None,
      column_filters             |-> <<>>,
      inspect_mode               |-> FALSE,
      inspect_active_section     |-> "Schema",
      inspect_schema_scroll_y    |-> 0,
      inspect_stats_scroll_y     |-> 0,
      inspect_selected_row       |-> 0,
      column_order               |-> [t \in TableNames |-> None],
      original_column_names      |-> <<>>,
      is_modifying               |-> FALSE,
      modify_backup_column_order |-> None,
      hidden_columns             |-> [t \in TableNames |-> {}] ]

-----------------------------------------------------------------------------
(* Column name / index helpers *)

\* get_virtual_column_order: the selected table's custom order if it has
\* one, otherwise the cached original order
get_virtual_column_order(s) ==
    IF IsSome(s.selected_table)
    THEN IF IsSome(s.column_order[Unwrap(s.selected_table)])
         THEN Unwrap(s.column_order[Unwrap(s.selected_table)])
         ELSE s.original_column_names
    ELSE s.original_column_names

get_column_names(s) == get_virtual_column_order(s)

get_original_column_names(s) == s.original_column_names

get_column_index_by_name(s, name) == Position(get_column_names(s), name)

get_column_name_by_index(s, index) ==
    IF InRange(get_column_names(s), index)
    THEN Some(At(get_column_names(s), index))
    ELSE None

get_selected_column_index(s) ==
    IF IsSome(s.selected_column)
    THEN get_column_index_by_name(s, Unwrap(s.selected_column))
    ELSE None

\* the selected table's hidden set (a missing map entry is the empty set)
get_hidden_columns(s) ==
    IF IsSome(s.selected_table)
    THEN s.hidden_columns[Unwrap(s.selected_table)]
    ELSE {}

is_column_hidden_by_name(s, name) ==
    IF IsSome(s.selected_table)
    THEN name \in s.hidden_columns[Unwrap(s.selected_table)]
    ELSE FALSE

\* faulty variant of get_visible_column_names: the visible names are listed
\* in the original order, not the virtual one
get_visible_column_names_original(s) ==
    LET names == get_original_column_names(s)
    IN  FilterSeq(names, {n \in Range(names) : ~is_column_hidden_by_name(s, n)})

\* get_visible_column_names
get_visible_column_names(s) ==
    LET names == get_column_names(s)
    IN  FilterSeq(names, {n \in Range(names) : ~is_column_hidden_by_name(s, n)})

\* faulty variant of get_next_visible_column: the name at the next index is
\* returned whether it is hidden or not
get_next_visible_column_adjacent(s, current_column) ==
    LET names == get_column_names(s)
        cur == Position(names, current_column)
    IN  IF IsSome(cur) /\ InRange(names, Unwrap(cur) + 1)
        THEN Some(At(names, Unwrap(cur) + 1))
        ELSE None

\* the first visible name at an index above that of current_column
get_next_visible_column(s, current_column) ==
    LET names == get_column_names(s)
        cur == Position(names, current_column)
    IN  IF IsSome(cur)
        THEN LET later == {i \in 0..(Len(names) - 1) :
                              i > Unwrap(cur)
                              /\ ~is_column_hidden_by_name(s, At(names, i))}
             IN  IF later # {}
                 THEN Some(At(names, CHOOSE i \in later : \A j \in later : i <= j))
                 ELSE None
        ELSE None

\* the last visible name at an index below that of current_column
get_prev_visible_column(s, current_column) ==
    LET names == get_column_names(s)
        cur == Position(names, current_column)
    IN  IF IsSome(cur)
        THEN LET earlier == {i \in 0..(Len(names) - 1) :
                                i < Unwrap(cur)
                                /\ ~is_column_hidden_by_name(s, At(names, i))}
             IN  IF earlier # {}
                 THEN Some(At(names, CHOOSE i \in earlier : \A j \in earlier : i >= j))
                 ELSE None
        ELSE None

get_first_visible_column(s) ==
    LET vis == get_visible_column_names(s)
    IN  IF vis # <<>> THEN Some(vis[1]) ELSE None

get_last_visible_column(s) ==
    LET vis == get_visible_column_names(s)
    IN  IF vis # <<>> THEN Some(vis[Len(vis)]) ELSE None

-----------------------------------------------------------------------------
(* Virtual column order *)

\* initialize_column_order(column_names)
initialize_column_order(s, column_names) ==
    LET s1 == IF s.original_column_names = <<>> /\ column_names # <<>>
              THEN [s EXCEPT !.original_column_names = column_names]
              ELSE s
    IN  IF IsSome(s1.selected_table)
           /\ ~IsSome(s1.column_order[Unwrap(s1.selected_table)])
        THEN [s1 EXCEPT !.column_order[Unwrap(s1.selected_table)] = Some(column_names)]
        ELSE s1

\* faulty variant of reorder_column: the column is copied to to_index and
\* stays at from_index as well
reorder_column_copy(s, from_index, to_index) ==
    IF IsSome(s.selected_table)
    THEN LET virtual_order == get_virtual_column_order(s)
         IN  IF from_index >= Len(virtual_order) \/ to_index >= Len(virtual_order)
             THEN s
             ELSE [s EXCEPT !.column_order[Unwrap(s.selected_table)] =
                      Some(VecInsert(virtual_order, to_index,
                                     At(virtual_order, from_index)))]
    ELSE s

\* faulty variant of reorder_column: the columns at from_index and to_index
\* change places
reorder_column_swap(s, from_index, to_index) ==
    IF IsSome(s.selected_table)
    THEN LET virtual_order == get_virtual_column_order(s)
         IN  IF from_index >= Len(virtual_order) \/ to_index >= Len(virtual_order)
             THEN s
             ELSE [s EXCEPT !.column_order[Unwrap(s.selected_table)] =
                      Some([k \in 1..Len(virtual_order) |->
                               IF k = from_index + 1 THEN At(virtual_order, to_index)
                               ELSE IF k = to_index + 1 THEN At(virtual_order, from_index)
                               ELSE virtual_order[k]])]
    ELSE s

\* the state reorder_column(from_index, to_index) leaves
reorder_column(s, from_index, to_index) ==
    IF IsSome(s.selected_table)
    THEN LET virtual_order == get_virtual_column_order(s)
         IN  IF from_index >= Len(virtual_order) \/ to_index >= Len(virtual_order)
             THEN s
             ELSE [s EXCEPT !.column_order[Unwrap(s.selected_table)] =
                      Some(VecInsert(VecRemove(virtual_order, from_index),
                                     to_index, At(virtual_order, from_index)))]
    ELSE s

\* the bool reorder_column(from_index, to_index) returns
reorder_column_ok(s, from_index, to_index) ==
    /\ IsSome(s.selected_table)
    /\ from_index < Len(get_virtual_column_order(s))
    /\ to_index < Len(get_virtual_column_order(s))

\* faulty variant of toggle_column_visibility: the selection left by hiding
\* the selected column prefers the previous visible column to the next one
toggle_column_visibility_prev_first(s) ==
    IF IsSome(s.selected_table)
    THEN LET table_name == Unwrap(s.selected_table)
             column_name == IF s.inspect_mode
                            THEN get_column_name_by_index(s, s.inspect_selected_row)
                            ELSE s.selected_column
         IN  IF IsSome(column_name)
             THEN LET col_name == Unwrap(column_name)
                      was_hidden == is_column_hidden_by_name(s, col_name)
                      s1 == [s EXCEPT !.hidden_columns[table_name] =
                               IF was_hidden THEN @ \ {col_name} ELSE @ \cup {col_name}]
                  IN  IF ~was_hidden /\ column_name = s.selected_column
                      THEN LET next_col == get_next_visible_column(s1, col_name)
                               prev_col == get_prev_visible_column(s1, col_name)
                           IN  [s1 EXCEPT !.selected_column =
                                  IF IsSome(prev_col) THEN prev_col
                                  ELSE IF IsSome(next_col) THEN next_col
                                  ELSE None]
                      ELSE s1
             ELSE s
    ELSE s

\* toggle_column_visibility
toggle_column_visibility(s) ==
    IF IsSome(s.selected_table)
    THEN LET table_name == Unwrap(s.selected_table)
             column_name == IF s.inspect_mode
                            THEN get_column_name_by_index(s, s.inspect_selected_row)
                            ELSE s.selected_column
         IN  IF IsSome(column_name)
             THEN LET col_name == Unwrap(column_name)
                      was_hidden == is_column_hidden_by_name(s, col_name)
                      s1 == [s EXCEPT !.hidden_columns[table_name] =
                               IF was_hidden THEN @ \ {col_name} ELSE @ \cup {col_name}]
                  IN  IF ~was_hidden /\ column_name = s.selected_column
                      THEN LET next_col == get_next_visible_column(s1, col_name)
                               prev_col == get_prev_visible_column(s1, col_name)
                           IN  [s1 EXCEPT !.selected_column =
                                  IF IsSome(next_col) THEN next_col
                                  ELSE IF IsSome(prev_col) THEN prev_col
                                  ELSE None]
                      ELSE s1
             ELSE s
    ELSE s

\* start_modifying
start_modifying(s) ==
    IF ~s.is_modifying
    THEN [s EXCEPT !.modify_backup_column_order = Some(get_virtual_column_order(s)),
                   !.is_modifying = TRUE]
    ELSE s

\* cancel_modifying
cancel_modifying(s) ==
    IF s.is_modifying
    THEN LET s1 == IF IsSome(s.modify_backup_column_order) /\ IsSome(s.selected_table)
                   THEN [s EXCEPT !.column_order[Unwrap(s.selected_table)] =
                            Some(Unwrap(s.modify_backup_column_order))]
                   ELSE s
         IN  [s1 EXCEPT !.is_modifying = FALSE, !.modify_backup_column_order = None]
    ELSE s

\* confirm_modifying
confirm_modifying(s) ==
    IF s.is_modifying
    THEN [s EXCEPT !.is_modifying = FALSE, !.modify_backup_column_order = None]
    ELSE s

-----------------------------------------------------------------------------
(* Table switch and table data *)

\* clear_sort
clear_sort(s) == [s EXCEPT !.sort_columns = <<>>]

\* faulty variant of select_table: the hidden columns of the table selected
\* are forgotten
select_table_forget(s, table) ==
    clear_sort([s EXCEPT !.selected_table = Some(table),
                         !.table_data = None,
                         !.scroll_x = 0,
                         !.scroll_y = 0,
                         !.selected_row = 0,
                         !.selected_column = None,
                         !.expanded_columns = {},
                         !.original_column_names = <<>>,
                         !.hidden_columns[table] = {}])

\* select_table(table)
select_table(s, table) ==
    clear_sort([s EXCEPT !.selected_table = Some(table),
                         !.table_data = None,
                         !.scroll_x = 0,
                         !.scroll_y = 0,
                         !.selected_row = 0,
                         !.selected_column = None,
                         !.expanded_columns = {},
                         !.original_column_names = <<>>])

\* set_table_data(data)
set_table_data(s, data) ==
    [s EXCEPT !.table_data = Some(data),
              !.scroll_x = 0,
              !.scroll_y = 0,
              !.selected_row = 0,
              !.selected_column = None]

\* ensure_selected_column_visible
ensure_selected_column_visible(s) ==
    LET selected_idx == get_selected_column_index(s)
    IN  IF IsSome(selected_idx) /\ Unwrap(selected_idx) < s.scroll_x
        THEN [s EXCEPT !.scroll_x = Unwrap(selected_idx)]
        ELSE s

\* faulty variant of update_table_data_preserve_column: the new data is
\* installed the way set_table_data installs it
update_table_data_preserve_column_reset(s, data) == set_table_data(s, data)

\* update_table_data_preserve_column(data)
update_table_data_preserve_column(s, data) ==
    LET saved_scroll_x == s.scroll_x
    IN  ensure_selected_column_visible(
            [s EXCEPT !.table_data = Some(data),
                      !.scroll_y = 0,
                      !.selected_row = 0,
                      !.scroll_x = saved_scroll_x])

\* show_error: an error notification is added (the notification list is
\* kept as the set of the types of the notifications on display)
show_error(s) == [s EXCEPT !.notifications = @ \cup {"Error"}]

\* show_success, show_info
show_success(s) == [s EXCEPT !.notifications = @ \cup {"Success"}]
show_info(s) == [s EXCEPT !.notifications = @ \cup {"Info"}]

-----------------------------------------------------------------------------
(* Panels *)

\* start_panel_flash: the timer holds the instant the flash started
start_panel_flash(s, t) == [s EXCEPT !.panel_flash_timer = Some(t)]

\* set_active_panel(panel), called at time t
set_active_panel(s, panel, t) ==
    [(IF s.active_panel # panel THEN start_panel_flash(s, t) ELSE s)
        EXCEPT !.active_panel = panel]

\* set_left_panel(panel), called at time t
set_left_panel(s, panel, t) ==
    LET s1 == [s EXCEPT !.last_left_panel = IF panel \in LeftPanels THEN panel ELSE @]
    IN  [(IF s1.active_panel # panel THEN start_panel_flash(s1, t) ELSE s1)
            EXCEPT !.active_panel = panel]

-----------------------------------------------------------------------------
(* Inspect mode *)

\* enter_inspect_mode
enter_inspect_mode(s) ==
    [s EXCEPT !.inspect_mode = TRUE,
              !.inspect_active_section = "Schema",
              !.inspect_schema_scroll_y = 0,
              !.inspect_stats_scroll_y = 0,
              !.inspect_selected_row = 0]

\* exit_inspect_mode
exit_inspect_mode(s) ==
    [s EXCEPT !.inspect_mode = FALSE,
              !.inspect_active_section = "Schema",
              !.inspect_schema_scroll_y = 0,
              !.inspect_stats_scroll_y = 0,
              !.inspect_selected_row = 0]

\* inspect_cycle_section
inspect_cycle_section(s) ==
    [s EXCEPT !.inspect_active_section =
        IF @ = "Schema" THEN "Statistics" ELSE "Schema"]

\* inspect_scroll_up
inspect_scroll_up(s) ==
    IF s.inspect_active_section = "Schema"
    THEN [s EXCEPT !.inspect_schema_scroll_y = IF @ > 0 THEN @ - 1 ELSE @]
    ELSE [s EXCEPT !.inspect_stats_scroll_y = IF @ > 0 THEN @ - 1 ELSE @]

\* inspect_scroll_down(max_rows, visible_rows)
inspect_scroll_down(s, max_rows, visible_rows) ==
    IF s.inspect_active_section = "Schema"
    THEN [s EXCEPT !.inspect_schema_scroll_y =
            IF @ + visible_rows < max_rows THEN @ + 1 ELSE @]
    ELSE [s EXCEPT !.inspect_stats_scroll_y =
            IF @ + visible_rows < max_rows THEN @ + 1 ELSE @]

\* inspect_move_selection_up
inspect_move_selection_up(s) ==
    IF s.inspect_selected_row > 0
    THEN LET row == s.inspect_selected_row - 1
         IN  [s EXCEPT !.inspect_selected_row = row,
                       !.inspect_schema_scroll_y = IF row < @ THEN row ELSE @]
    ELSE s

\* inspect_move_selection_down(max_rows, visible_rows)
inspect_move_selection_down(s, max_rows, visible_rows) ==
    IF s.inspect_selected_row + 1 < max_rows
    THEN LET row == s.inspect_selected_row + 1
         IN  [s EXCEPT !.inspect_selected_row = row,
                       !.inspect_schema_scroll_y =
                           IF row >= @ + visible_rows THEN row - visible_rows + 1 ELSE @]
    ELSE s

\* `for _ in 0..n { inspect_scroll_up() }`
RECURSIVE inspect_scroll_up_times(_, _)
inspect_scroll_up_times(s, n) ==
    IF n = 0 THEN s ELSE inspect_scroll_up_times(inspect_scroll_up(s), n - 1)

\* `for _ in 0..n { inspect_scroll_down(max_rows, visible_rows) }`
RECURSIVE inspect_scroll_down_times(_, _, _, _)
inspect_scroll_down_times(s, max_rows, visible_rows, n) ==
    IF n = 0 THEN s
    ELSE inspect_scroll_down_times(inspect_scroll_down(s, max_rows, visible_rows),
                                   max_rows, visible_rows, n - 1)

\* calculate_inspect_scroll_bounds: (max_rows, visible_rows)
inspect_max_rows(s) == IF s.inspect_active_section = "Schema" THEN 20 ELSE 50

inspect_visible_rows(s) == Max(SatSub(s.last_table_area_height \div 2, 3), 5)

-----------------------------------------------------------------------------
(* Row and column selection *)

\* move_selected_up
move_selected_up(s) ==
    IF s.selected_row > 0
    THEN LET row == s.selected_row - 1
         IN  [s EXCEPT !.selected_row = row,
                       !.scroll_y = IF row < s.scroll_y THEN row ELSE @]
    ELSE s

\* faulty variant of move_selected_down: the row below is selected whether
\* the table has one or not
move_selected_down_unbounded(s, max_rows, visible_rows) ==
    LET row == s.selected_row + 1
    IN  [s EXCEPT !.selected_row = row,
                  !.scroll_y = IF row >= s.scroll_y + visible_rows
                               THEN row - visible_rows + 1 ELSE @]

\* move_selected_down(max_rows, visible_rows)
move_selected_down(s, max_rows, visible_rows) ==
    IF s.selected_row + 1 < max_rows
    THEN LET row == s.selected_row + 1
         IN  [s EXCEPT !.selected_row = row,
                       !.scroll_y = IF row >= s.scroll_y + visible_rows
                                    THEN row - visible_rows + 1 ELSE @]
    ELSE s

\* move_selected_left
move_selected_left(s) ==
    IF IsSome(s.selected_column)
    THEN LET prev_col == get_prev_visible_column(s, Unwrap(s.selected_column))
         IN  IF IsSome(prev_col)
             THEN ensure_selected_column_visible([s EXCEPT !.selected_column = prev_col])
             ELSE s
    ELSE [s EXCEPT !.selected_column = get_first_visible_column(s)]

\* move_selected_right(_max_cols, _visible_cols): both arguments are unused
move_selected_right(s) ==
    IF IsSome(s.selected_column)
    THEN LET next_col == get_next_visible_column(s, Unwrap(s.selected_column))
         IN  IF IsSome(next_col)
             THEN ensure_selected_column_visible([s EXCEPT !.selected_column = next_col])
             ELSE s
    ELSE [s EXCEPT !.selected_column = get_first_visible_column(s)]

\* the number of columns navigate_extreme_right assumes to be on screen
estimated_visible_cols == 5
\* the number of rows navigate_extreme_down assumes to be on screen
estimated_visible_rows == 10

\* navigate_extreme_left
navigate_extreme_left(s) ==
    IF s.is_modifying THEN s
    ELSE IF s.inspect_mode THEN inspect_scroll_up_times(s, 10)
    ELSE LET s1 == [s EXCEPT !.scroll_x = 0]
         IN  IF IsSome(s1.table_data)
             THEN [s1 EXCEPT !.selected_column =
                     IF Unwrap(s1.table_data).columns # <<>>
                     THEN Some(Unwrap(s1.table_data).columns[1]) ELSE None]
             ELSE s1

\* navigate_extreme_right
navigate_extreme_right(s) ==
    IF s.is_modifying THEN s
    ELSE IF s.inspect_mode THEN inspect_scroll_down_times(s, 20, 10, 10)
    ELSE LET s1 == [s EXCEPT !.selected_column = get_last_visible_column(s)]
             total_cols == Len(get_column_names(s1))
         IN  IF total_cols > estimated_visible_cols
             THEN [s1 EXCEPT !.scroll_x = total_cols - estimated_visible_cols]
             ELSE s1

\* navigate_extreme_up
navigate_extreme_up(s) ==
    IF s.is_modifying THEN s
    ELSE IF s.inspect_mode
    THEN IF s.inspect_active_section = "Schema"
         THEN [s EXCEPT !.inspect_selected_row = 0, !.inspect_schema_scroll_y = 0]
         ELSE [s EXCEPT !.inspect_stats_scroll_y = 0]
    ELSE [s EXCEPT !.selected_row = 0, !.scroll_y = 0]

\* navigate_extreme_down
navigate_extreme_down(s) ==
    IF s.is_modifying THEN s
    ELSE IF s.inspect_mode
    THEN IF s.inspect_active_section = "Schema"
         THEN IF IsSome(s.table_data) /\ Len(Unwrap(s.table_data).columns) > 0
              THEN LET total_cols == Len(Unwrap(s.table_data).columns)
                   IN  [s EXCEPT !.inspect_selected_row = total_cols - 1,
                                 !.inspect_schema_scroll_y =
                                     IF total_cols > estimated_visible_rows
                                     THEN total_cols - estimated_visible_rows ELSE @]
              ELSE s
         ELSE [s EXCEPT !.inspect_stats_scroll_y = 20 - 10]
    ELSE IF IsSome(s.table_data)
    THEN LET total_rows == Len(Unwrap(s.table_data).rows)
         IN  IF total_rows > 0
             THEN [s EXCEPT !.selected_row = total_rows - 1,
                            !.scroll_y = IF total_rows > estimated_visible_rows
                                         THEN total_rows - estimated_visible_rows
                                         ELSE @]
             ELSE s
    ELSE s

\* move_column_extreme_left: the state it leaves
move_column_extreme_left(s) ==
    IF IsSome(get_selected_column_index(s))
    THEN reorder_column(s, Unwrap(get_selected_column_index(s)), 0)
    ELSE s

\* move_column_extreme_left: the bool it returns
move_column_extreme_left_ok(s) ==
    /\ IsSome(get_selected_column_index(s))
    /\ reorder_column_ok(s, Unwrap(get_selected_column_index(s)), 0)

\* move_column_extreme_right: the state it leaves
move_column_extreme_right(s) ==
    IF IsSome(get_selected_column_index(s)) /\ get_virtual_column_order(s) # <<>>
    THEN reorder_column(s, Unwrap(get_selected_column_index(s)),
                        Len(get_virtual_column_order(s)) - 1)
    ELSE s

\* move_column_extreme_right: the bool it returns
move_column_extreme_right_ok(s) ==
    /\ IsSome(get_selected_column_index(s))
    /\ get_virtual_column_order(s) # <<>>
    /\ reorder_column_ok(s, Unwrap(get_selected_column_index(s)),
                         Len(get_virtual_column_order(s)) - 1)

-----------------------------------------------------------------------------
(* Sort chain *)

DirectionOf(ascending) == IF ascending THEN Ascending ELSE Descending

\* faulty variant of set_primary_sort: the chain is replaced even when its
\* primary entry already is the requested one
set_primary_sort_always(s, ascending) ==
    IF IsSome(s.selected_column)
    THEN [s EXCEPT !.sort_columns =
             <<SortColumnSpec(Unwrap(s.selected_column), DirectionOf(ascending))>>]
    ELSE s

\* set_primary_sort(ascending)
set_primary_sort(s, ascending) ==
    IF IsSome(s.selected_column)
    THEN LET column_name == Unwrap(s.selected_column)
         IN  IF s.sort_columns # <<>>
                /\ s.sort_columns[1].column_name = column_name
                /\ s.sort_columns[1].direction = DirectionOf(ascending)
             THEN clear_sort(s)
             ELSE [s EXCEPT !.sort_columns =
                      <<SortColumnSpec(column_name, DirectionOf(ascending))>>]
    ELSE s

\* the chain with the column_name of every entry
SortNames(chain) == [i \in 1..Len(chain) |-> chain[i].column_name]

\* faulty variant of toggle_in_sort_chain: a column whose direction changes
\* moves to the end of the chain
toggle_in_sort_chain_requeue(s, ascending) ==
    IF IsSome(s.selected_column)
    THEN LET column_name == Unwrap(s.selected_column)
             desired_direction == DirectionOf(ascending)
             pos == Position(SortNames(s.sort_columns), column_name)
         IN  IF IsSome(pos)
             THEN IF At(s.sort_columns, Unwrap(pos)).direction = desired_direction
                  THEN [s EXCEPT !.sort_columns = VecRemove(@, Unwrap(pos))]
                  ELSE [s EXCEPT !.sort_columns =
                           Append(VecRemove(@, Unwrap(pos)),
                                  SortColumnSpec(column_name, desired_direction))]
             ELSE [s EXCEPT !.sort_columns =
                      Append(@, SortColumnSpec(column_name, desired_direction))]
    ELSE s

\* faulty variant of toggle_in_sort_chain: the column is appended whether or
\* not the chain holds it
toggle_in_sort_chain_append(s, ascending) ==
    IF IsSome(s.selected_column)
    THEN [s EXCEPT !.sort_columns =
             Append(@, SortColumnSpec(Unwrap(s.selected_column),
                                      DirectionOf(ascending)))]
    ELSE s

\* toggle_in_sort_chain(ascending)
toggle_in_sort_chain(s, ascending) ==
    IF IsSome(s.selected_column)
    THEN LET column_name == Unwrap(s.selected_column)
             desired_direction == DirectionOf(ascending)
             pos == Position(SortNames(s.sort_columns), column_name)
         IN  IF IsSome(pos)
             THEN IF At(s.sort_columns, Unwrap(pos)).direction = desired_direction
                  THEN [s EXCEPT !.sort_columns = VecRemove(@, Unwrap(pos))]
                  ELSE [s EXCEPT !.sort_columns[Unwrap(pos) + 1].direction =
                                     desired_direction]
             ELSE [s EXCEPT !.sort_columns =
                      Append(@, SortColumnSpec(column_name, desired_direction))]
    ELSE s

-----------------------------------------------------------------------------
(* Column expansion *)

\* toggle_column_expansion
toggle_column_expansion(s) ==
    LET selected_idx == get_selected_column_index(s)
    IN  IF IsSome(selected_idx)
        THEN IF Unwrap(selected_idx) \in s.expanded_columns
             THEN [s EXCEPT !.expanded_columns = @ \ {Unwrap(selected_idx)}]
             ELSE [s EXCEPT !.expanded_columns = @ \cup {Unwrap(selected_idx)}]
        ELSE s

is_column_expanded(s, column_index) == column_index \in s.expanded_columns

-----------------------------------------------------------------------------
(* Filter search *)

\* the characters typed into a search; a string is the sequence of its
\* characters
SearchChars == {"p"}

\* str::trim
RECURSIVE TrimStart(_)
TrimStart(text) ==
    IF text # <<>> /\ Head(text) = " " THEN TrimStart(Tail(text)) ELSE text

RECURSIVE TrimEnd(_)
TrimEnd(text) ==
    IF text # <<>> /\ text[Len(text)] = " "
    THEN TrimEnd(SubSeq(text, 1, Len(text) - 1)) ELSE text

Trim(text) == TrimEnd(TrimStart(text))

\* HashMap::insert and HashMap::remove on the filter map
MapInsert(map, key, value) ==
    [k \in DOMAIN map \cup {key} |-> IF k = key THEN value ELSE map[k]]

MapRemove(map, key) == [k \in DOMAIN map \ {key} |-> map[k]]

\* start_column_search(column_index)
start_column_search(s, column_index) ==
    [s EXCEPT !.is_searching = TRUE,
              !.search_column = Some(column_index),
              !.search_text = <<>>,
              !.search_syntax_valid = TRUE,
              !.search_debounce_timer = None,
              !.expanded_columns = @ \cup {column_index}]

\* cancel_search
cancel_search(s) ==
    [s EXCEPT !.is_searching = FALSE,
              !.search_column = None,
              !.search_text = <<>>,
              !.search_syntax_valid = TRUE,
              !.search_debounce_timer = None]

\* add_char_to_search(c), called at time t
add_char_to_search(s, c, t) ==
    IF s.is_searching
    THEN [s EXCEPT !.search_text = Append(@, c),
                   !.search_debounce_timer = Some(t)]
    ELSE s

\* remove_char_from_search, called at time t
remove_char_from_search(s, t) ==
    IF s.is_searching
    THEN [s EXCEPT !.search_text = IF @ = <<>> THEN @ ELSE SubSeq(@, 1, Len(@) - 1),
                   !.search_debounce_timer = Some(t)]
    ELSE s

\* finalize_search: the bool it returns
finalize_search_ok(s) ==
    /\ s.is_searching
    /\ s.search_syntax_valid
    /\ Trim(s.search_text) # <<>>
    /\ IsSome(s.search_column)
    /\ IsSome(get_column_name_by_index(s, Unwrap(s.search_column)))

\* finalize_search: the state it leaves
finalize_search(s) ==
    IF finalize_search_ok(s)
    THEN cancel_search(
            [s EXCEPT !.column_filters =
                MapInsert(@, Unwrap(get_column_name_by_index(s, Unwrap(s.search_column))),
                          Trim(s.search_text))])
    ELSE s

\* clear_column_filter(column_name)
clear_column_filter(s, column_name) ==
    [s EXCEPT !.column_filters = MapRemove(@, column_name)]

-----------------------------------------------------------------------------
(* Text layout: a string is the sequence of its characters *)

Ellipsis == <<".", ".", ".">>

\* truncate_text(text, max_width)
truncate_text(text, max_width) ==
    IF max_width <= 3 THEN Ellipsis
    ELSE IF Len(text) <= max_width THEN text
    ELSE SubSeq(text, 1, SatSub(max_width, 3)) \o Ellipsis

\* the while loop of wrap_text: the lines from the character at `start` on
RECURSIVE WrapFrom(_, _, _)
WrapFrom(chars, max_width, start) ==
    IF start < Len(chars)
    THEN LET end == Min(start + max_width, Len(chars))
         IN  <<SubSeq(chars, start + 1, end)>> \o WrapFrom(chars, max_width, end)
    ELSE <<>>

\* faulty variant of wrap_text: the characters after the last full line are
\* left out
wrap_text_full_lines(text, max_width) ==
    IF max_width = 0 THEN <<>>
    ELSE IF Len(text) <= max_width THEN <<text>>
    ELSE SubSeq(WrapFrom(text, max_width, 0), 1, Len(text) \div max_width)

\* wrap_text(text, max_width)
wrap_text(text, max_width) ==
    IF max_width = 0 THEN <<>>
    ELSE IF Len(text) <= max_width THEN <<text>>
    ELSE WrapFrom(text, max_width, 0)

-----------------------------------------------------------------------------
(* Viewport: the rows that fit the table area *)

min_col_width == 8
normal_col_max_width == 25
expanded_col_max_width == 50
\* the width calculate_visible_data_rows_from_height assumes for navigation
navigation_available_width == 100

\* the number of characters of a decimal number
RECURSIVE Digits(_)
Digits(n) == IF n < 10 THEN 1 ELSE 1 + Digits(n \div 10)

\* get_final_header_text(_, column_name): the number of characters of the
\* header, with the sort indicator (" ^" or " ^^n") and the filter mark " *"
header_width(s, column_name) ==
    LET pos == Position(SortNames(s.sort_columns), column_name)
    IN  Len(column_name)
        + (IF IsSome(pos)
           THEN IF Len(s.sort_columns) > 1 THEN 3 + Digits(Unwrap(pos) + 1) ELSE 2
           ELSE 0)
        + (IF column_name \in DOMAIN s.column_filters THEN 2 ELSE 0)

\* the width the navigation code gives data column i (0-based)
nav_column_width(s, data, i) ==
    IF is_column_expanded(s, i)
    THEN Min(Max(header_width(s, At(data.columns, i)), min_col_width),
             expanded_col_max_width)
    ELSE Min(Max(header_width(s, At(data.columns, i)), min_col_width),
             normal_col_max_width)

\* the data columns packed from start_col into available_width, at least one
RECURSIVE PackColumns(_, _, _, _, _)
PackColumns(s, data, i, used_width, available_width) ==
    IF i < Len(data.columns)
       /\ used_width + nav_column_width(s, data, i) <= available_width
    THEN {i} \cup PackColumns(s, data, i + 1,
                              used_width + nav_column_width(s, data, i),
                              available_width)
    ELSE {}

nav_visible_cols(s, data) ==
    LET packed == PackColumns(s, data, s.scroll_x, 0, navigation_available_width)
    IN  IF packed = {} /\ s.scroll_x < Len(data.columns) THEN {s.scroll_x} ELSE packed

\* the lines of one cell
cell_lines(s, data, row, col_idx) ==
    LET cell_content == IF col_idx < Len(row) THEN At(row, col_idx) ELSE <<>>
    IN  IF is_column_expanded(s, col_idx)
        THEN Len(wrap_text(cell_content, nav_column_width(s, data, col_idx)))
        ELSE 1

\* max_lines of a row: the tallest cell over the columns in cols, at least 1
RECURSIVE MaxLines(_, _, _, _)
MaxLines(s, data, row, cols) ==
    IF cols = {} THEN 1
    ELSE LET col_idx == CHOOSE c \in cols : TRUE
         IN  Max(cell_lines(s, data, row, col_idx),
                 MaxLines(s, data, row, cols \ {col_idx}))

row_max_lines(s, data, row) == MaxLines(s, data, row, nav_visible_cols(s, data))

\* the loop counting the complete rows that fit from row_idx (0-based) on
RECURSIVE CountRows(_, _, _, _, _)
CountRows(s, data, row_idx, used_height, available_height) ==
    IF row_idx < Len(data.rows)
       /\ used_height + row_max_lines(s, data, At(data.rows, row_idx)) <= available_height
    THEN 1 + CountRows(s, data, row_idx + 1,
                       used_height + row_max_lines(s, data, At(data.rows, row_idx)),
                       available_height)
    ELSE 0

\* calculate_visible_data_rows_from_height(area_height, data)
calculate_visible_data_rows_from_height(s, area_height, data) ==
    LET available_height == SatSub(area_height, 3)
    IN  IF data.rows = <<>> THEN 0
        ELSE IF s.expanded_columns = {} THEN Max(available_height, 1)
        ELSE Max(CountRows(s, data, s.scroll_y, 0, available_height), 1)

-----------------------------------------------------------------------------
(* Database dropdown *)

\* expand_database_dropdown(num_databases)
expand_database_dropdown(s, num_databases) ==
    [s EXCEPT !.database_dropdown_expanded = TRUE,
              !.dropdown_selected_index = IF @ >= num_databases THEN 0 ELSE @]

\* collapse_database_dropdown
collapse_database_dropdown(s) == [s EXCEPT !.database_dropdown_expanded = FALSE]

\* dropdown_move_up
dropdown_move_up(s) ==
    [s EXCEPT !.dropdown_selected_index = IF @ > 0 THEN @ - 1 ELSE @]

\* dropdown_move_down(num_databases)
dropdown_move_down(s, num_databases) ==
    [s EXCEPT !.dropdown_selected_index =
        IF @ < SatSub(num_databases, 1) THEN @ + 1 ELSE @]

\* set_dropdown_to_current_database(current_db_index)
set_dropdown_to_current_database(s, current_db_index) ==
    [s EXCEPT !.dropdown_selected_index = current_db_index]

\* select_database(database)
select_database(s, database) == [s EXCEPT !.selected_database = Some(database)]

-----------------------------------------------------------------------------
(* App: construction and the refresh of the table data *)

\* the tables of the current database, in the order the table list shows
TableOrder == <<"t1", "t2">>

\* App::new_with_database(Some(path)): one connected database, selected.
\* `tables` is the table list the database manager holds for the current
\* database, and `show_file_browser` whether the file browser is open.
\* `refresh` is a history field, not a field of App: the outcome of the
\* refresh the last key made ("none" when it made none).  `running` is
\* whether the loop of run_app is still going round.  `recent_left_panel`
\* is a history field too: the left-hand panel (DatabaseList or TableList)
\* that was the active panel last, and so is `modified_table`: the table
\* that was selected when modify mode was entered, while modify mode
\* lasts; and `shown_preview`: whether the table data on display was
\* fetched by the live preview of a filter search.  `connections` holds
\* the keys of the
\* connection map of the database manager, `databases` the names of its
\* database list.
NewApp ==
    [ state                |-> NewState,
      databases            |-> <<"db">>,
      connections          |-> {"db"},
      current_database     |-> Some("db"),
      selected_db_index    |-> 0,
      selected_table_index |-> 0,
      tables               |-> TableOrder,
      show_file_browser    |-> FALSE,
      refresh              |-> "none",
      recent_left_panel    |-> NewState.active_panel,
      modified_table       |-> None,
      shown_preview        |-> FALSE,
      running              |-> TRUE ]

WithState(a, s) == [a EXCEPT !.state = s]

\* the two ways a refresh ends, with the state it leaves
Refreshed(a, s) == [a EXCEPT !.state = s, !.refresh = "ok"]

\* faulty variant of RefreshFailed: the failed refresh drops the table data
RefreshFailed_drop(a, s) ==
    [a EXCEPT !.state = show_error([s EXCEPT !.table_data = None, !.selected_row = 0]),
              !.refresh = "failed"]

RefreshFailed(a, s) == [a EXCEPT !.state = show_error(s), !.refresh = "failed"]

\* get_current_tables
get_current_tables(a) ==
    IF IsSome(a.current_database) THEN a.tables ELSE <<>>

\* sync_selected_db_index
sync_selected_db_index(a) ==
    IF IsSome(a.current_database)
       /\ IsSome(Position(a.databases, Unwrap(a.current_database)))
    THEN [a EXCEPT !.selected_db_index =
            Unwrap(Position(a.databases, Unwrap(a.current_database)))]
    ELSE a

\* sync_selected_table_index
sync_selected_table_index(a) ==
    IF IsSome(a.state.selected_table)
       /\ IsSome(Position(get_current_tables(a), Unwrap(a.state.selected_table)))
    THEN [a EXCEPT !.selected_table_index =
            Unwrap(Position(get_current_tables(a), Unwrap(a.state.selected_table)))]
    ELSE a

\* the QueryResult of a successful data query over `columns`: all the rows
\* of the table without a WHERE clause, the nrows rows that pass it with one
QueryResult(columns, filtered, nrows) ==
    [columns |-> columns,
     rows    |-> EngineRows(columns, IF filtered THEN nrows ELSE MaxRows)]

\* execute_query_direct fails on `SELECT  FROM t` (no column left to select)
\* and whenever the engine says so
QuerySucceeds(columns, ans) == ans.query_ok /\ columns # <<>>

\* fetch_table_data: the refresh after a table is selected; it builds the
\* query without the WHERE clause
fetch_table_data(a, ans) ==
    LET s == a.state
    IN  IF IsSome(s.selected_database) /\ IsSome(s.selected_table)
        THEN IF IsSome(a.current_database)
             THEN IF ans.names_ok
                  THEN LET s1 == initialize_column_order(
                                     s, schema[Unwrap(s.selected_table)])
                           columns == get_visible_column_names(s1)
                       IN  IF QuerySucceeds(columns, ans)
                           THEN [Refreshed(a, set_table_data(
                                     s1, QueryResult(columns, FALSE, ans.nrows)))
                                   EXCEPT !.shown_preview = FALSE]
                           ELSE RefreshFailed(a, s1)
                  ELSE RefreshFailed(a, s)
             ELSE RefreshFailed(a, s)
        ELSE RefreshFailed(a, s)

\* fetch_table_data_preserve_column_with_limit(include_limit): LIMIT 1000 is
\* above every row count of the model, so include_limit changes no result
fetch_table_data_preserve_column_with_limit(a, include_limit, ans) ==
    LET s == a.state
    IN  IF IsSome(s.selected_database) /\ IsSome(s.selected_table)
        THEN IF IsSome(a.current_database)
             THEN IF ans.names_ok
                  THEN LET s1 == initialize_column_order(
                                     s, schema[Unwrap(s.selected_table)])
                           columns == get_visible_column_names(s1)
                       IN  IF QuerySucceeds(columns, ans)
                           THEN [Refreshed(a, update_table_data_preserve_column(
                                     s1, QueryResult(columns,
                                                     DOMAIN s1.column_filters # {},
                                                     ans.nrows)))
                                   EXCEPT !.shown_preview = FALSE]
                           ELSE RefreshFailed(a, s1)
                  ELSE RefreshFailed(a, s)
             ELSE RefreshFailed(a, s)
        ELSE RefreshFailed(a, s)

\* fetch_table_data_preserve_column
fetch_table_data_preserve_column(a, ans) ==
    fetch_table_data_preserve_column_with_limit(a, TRUE, ans)

\* validate_search_syntax: `valid` is whether the engine can prepare
\* `SELECT COUNT(*) FROM t WHERE <column> <search text>`
validate_search_syntax(a, valid) ==
    LET s == a.state
    IN  IF ~s.is_searching THEN a
        ELSE IF Trim(s.search_text) = <<>>
        THEN WithState(a, [s EXCEPT !.search_syntax_valid = TRUE])
        ELSE IF IsSome(s.search_column) /\ IsSome(s.selected_table)
                /\ IsSome(s.table_data)
                /\ Unwrap(s.search_column) < Len(Unwrap(s.table_data).columns)
        THEN WithState(a, [s EXCEPT !.search_syntax_valid =
                              IF IsSome(a.current_database) THEN valid ELSE TRUE])
        ELSE a

-----------------------------------------------------------------------------
(* App: key handlers.  `ans` is the engine's answer to the refresh the key  *)
(* may trigger.                                                            *)

\* handle_vim_up
handle_vim_up(a, ans) ==
    LET s == a.state
    IN  IF s.is_modifying /\ s.inspect_mode
        THEN IF s.inspect_active_section = "Schema" /\ s.inspect_selected_row > 0
                /\ reorder_column_ok(s, s.inspect_selected_row, s.inspect_selected_row - 1)
             THEN LET a1 == fetch_table_data_preserve_column(
                                WithState(a, reorder_column(s, s.inspect_selected_row,
                                                            s.inspect_selected_row - 1)),
                                ans)
                  IN  WithState(a1, [a1.state EXCEPT !.inspect_selected_row =
                                         s.inspect_selected_row - 1])
             ELSE a
        ELSE IF s.inspect_mode
        THEN IF s.inspect_active_section = "Schema"
             THEN WithState(a, inspect_move_selection_up(s))
             ELSE WithState(a, inspect_scroll_up(s))
        ELSE CASE s.active_panel = "DatabaseList" ->
                    IF ~s.database_dropdown_expanded
                    THEN WithState(a, set_dropdown_to_current_database(
                             expand_database_dropdown(s, Len(a.databases)),
                             a.selected_db_index))
                    ELSE WithState(a, dropdown_move_up(s))
               [] s.active_panel = "TableList" ->
                    [a EXCEPT !.selected_table_index = IF @ > 0 THEN @ - 1 ELSE @]
               [] s.active_panel = "MainContent" ->
                    IF IsSome(s.table_data) THEN WithState(a, move_selected_up(s)) ELSE a
               [] OTHER -> a

\* handle_vim_down
handle_vim_down(a, ans) ==
    LET s == a.state
    IN  IF s.is_modifying /\ s.inspect_mode
        THEN IF s.inspect_active_section = "Schema"
                /\ s.inspect_selected_row + 1 < Len(get_virtual_column_order(s))
                /\ reorder_column_ok(s, s.inspect_selected_row, s.inspect_selected_row + 1)
             THEN LET a1 == fetch_table_data_preserve_column(
                                WithState(a, reorder_column(s, s.inspect_selected_row,
                                                            s.inspect_selected_row + 1)),
                                ans)
                  IN  WithState(a1, [a1.state EXCEPT !.inspect_selected_row =
                                         s.inspect_selected_row + 1])
             ELSE a
        ELSE IF s.inspect_mode
        THEN IF s.inspect_active_section = "Schema"
             THEN WithState(a, inspect_move_selection_down(
                      s, Len(get_virtual_column_order(s)), inspect_visible_rows(s)))
             ELSE WithState(a, inspect_scroll_down(
                      s, inspect_max_rows(s), inspect_visible_rows(s)))
        ELSE CASE s.active_panel = "DatabaseList" ->
                    IF ~s.database_dropdown_expanded
                    THEN WithState(a, set_dropdown_to_current_database(
                             expand_database_dropdown(s, Len(a.databases)),
                             a.selected_db_index))
                    ELSE WithState(a, dropdown_move_down(s, Len(a.databases)))
               [] s.active_panel = "TableList" ->
                    [a EXCEPT !.selected_table_index =
                        IF @ < SatSub(Len(get_current_tables(a)), 1) THEN @ + 1 ELSE @]
               [] s.active_panel = "MainContent" ->
                    IF IsSome(s.table_data)
                    THEN WithState(a, move_selected_down(
                             s, Len(Unwrap(s.table_data).rows),
                             calculate_visible_data_rows_from_height(
                                 s, s.last_table_area_height, Unwrap(s.table_data))))
                    ELSE a
               [] OTHER -> a

\* handle_vim_left
handle_vim_left(a, ans) ==
    LET s == a.state
        idx == get_selected_column_index(s)
    IN  IF s.is_modifying /\ s.active_panel = "MainContent" /\ ~s.inspect_mode
        THEN IF IsSome(idx) /\ Unwrap(idx) > 0
                /\ reorder_column_ok(s, Unwrap(idx), Unwrap(idx) - 1)
             THEN fetch_table_data_preserve_column(
                      WithState(a, reorder_column(s, Unwrap(idx), Unwrap(idx) - 1)), ans)
             ELSE a
        ELSE IF s.inspect_mode
        THEN WithState(a, inspect_scroll_up_times(s, 5))
        ELSE CASE s.active_panel = "MainContent" ->
                    IF IsSome(s.table_data) THEN WithState(a, move_selected_left(s)) ELSE a
               [] s.active_panel = "TableList" ->
                    WithState(a, collapse_database_dropdown(
                                     set_left_panel(s, "DatabaseList", now)))
               [] s.active_panel = "DatabaseList" ->
                    WithState(a, collapse_database_dropdown(
                                     set_left_panel(s, "TableList", now)))
               [] OTHER -> a

\* handle_vim_right
handle_vim_right(a, ans) ==
    LET s == a.state
        idx == get_selected_column_index(s)
    IN  IF s.is_modifying /\ s.active_panel = "MainContent" /\ ~s.inspect_mode
        THEN IF IsSome(idx) /\ Unwrap(idx) < Len(get_virtual_column_order(s)) - 1
                /\ reorder_column_ok(s, Unwrap(idx), Unwrap(idx) + 1)
             THEN fetch_table_data_preserve_column(
                      WithState(a, reorder_column(s, Unwrap(idx), Unwrap(idx) + 1)), ans)
             ELSE a
        ELSE IF s.inspect_mode
        THEN WithState(a, inspect_scroll_down_times(
                 s, inspect_max_rows(s), inspect_visible_rows(s), 5))
        ELSE CASE s.active_panel = "DatabaseList" ->
                    WithState(a, collapse_database_dropdown(
                                     set_left_panel(s, "TableList", now)))
               [] s.active_panel = "MainContent" ->
                    IF IsSome(s.table_data) THEN WithState(a, move_selected_right(s)) ELSE a
               [] s.active_panel = "TableList" ->
                    WithState(a, set_left_panel(s, "DatabaseList", now))
               [] OTHER -> a

\* handle_extreme_up (move_column_extreme_up is move_column_extreme_left)
handle_extreme_up(a, ans) ==
    IF a.state.is_modifying
    THEN IF move_column_extreme_left_ok(a.state)
         THEN fetch_table_data_preserve_column(
                  WithState(a, move_column_extreme_left(a.state)), ans)
         ELSE a
    ELSE WithState(a, navigate_extreme_up(a.state))

\* handle_extreme_down (move_column_extreme_down is move_column_extreme_right)
handle_extreme_down(a, ans) ==
    IF a.state.is_modifying
    THEN IF move_column_extreme_right_ok(a.state)
         THEN fetch_table_data_preserve_column(
                  WithState(a, move_column_extreme_right(a.state)), ans)
         ELSE a
    ELSE WithState(a, navigate_extreme_down(a.state))

\* handle_extreme_left
handle_extreme_left(a, ans) ==
    IF a.state.is_modifying
    THEN IF move_column_extreme_left_ok(a.state)
         THEN fetch_table_data_preserve_column(
                  WithState(a, move_column_extreme_left(a.state)), ans)
         ELSE a
    ELSE WithState(a, navigate_extreme_left(a.state))

\* handle_extreme_right
handle_extreme_right(a, ans) ==
    IF a.state.is_modifying
    THEN IF move_column_extreme_right_ok(a.state)
         THEN fetch_table_data_preserve_column(
                  WithState(a, move_column_extreme_right(a.state)), ans)
         ELSE a
    ELSE WithState(a, navigate_extreme_right(a.state))

\* handle_modify_mode
handle_modify_mode(a) ==
    LET s == a.state
    IN  IF ((s.active_panel = "MainContent" /\ IsSome(s.table_data))
            \/ (s.inspect_mode /\ s.inspect_active_section = "Schema"))
           /\ ~s.is_modifying
        THEN WithState(a, start_modifying(s))
        ELSE a

\* handle_enter
handle_enter(a, ans) ==
    LET s == a.state
    IN  IF s.is_modifying THEN WithState(a, confirm_modifying(s))
        ELSE CASE s.active_panel = "DatabaseList" ->
                    IF s.database_dropdown_expanded
                    THEN LET a1 ==
                               IF InRange(a.databases, s.dropdown_selected_index)
                               THEN LET db_name == At(a.databases, s.dropdown_selected_index)
                                    IN  [sync_selected_db_index(
                                            [a EXCEPT !.current_database = Some(db_name),
                                                      !.state = select_database(s, db_name)])
                                          EXCEPT !.selected_table_index = 0]
                               ELSE a
                         IN  WithState(a1, collapse_database_dropdown(a1.state))
                    ELSE WithState(a, set_dropdown_to_current_database(
                             expand_database_dropdown(s, Len(a.databases)),
                             a.selected_db_index))
               [] s.active_panel = "TableList" ->
                    IF InRange(get_current_tables(a), a.selected_table_index)
                    THEN LET table_name == At(get_current_tables(a), a.selected_table_index)
                             a1 == fetch_table_data(
                                       sync_selected_table_index(
                                           WithState(a, select_table(s, table_name))),
                                       ans)
                         IN  WithState(a1, set_active_panel(a1.state, "MainContent", now))
                    ELSE a
               [] s.active_panel = "MainContent" ->
                    IF IsSome(s.table_data) /\ ~s.is_modifying
                    THEN WithState(a, toggle_column_expansion(s))
                    ELSE a
               [] OTHER -> a

-----------------------------------------------------------------------------
(* handle_key: one action per branch, guarded by the branch's conditions.  *)
(* Of the modals the database name ('n'), the table name ('i') and the    *)
(* file browser ('o') are modelled; the save-file, view-name and           *)
(* delete-confirmation modals stay closed.                                 *)

\* the App as a key finds it
Begin == [app EXCEPT !.refresh = "none"]

\* the answer handed to a handler on a branch that asks the engine nothing
NoAnswer == CHOOSE ans \in EngineAnswers : TRUE

\* the answers the engine may give to the refresh of state s
AnswersTo(s) ==
    IF DOMAIN s.column_filters = {} THEN UnfilteredAnswers ELSE EngineAnswers

\* a key was handled: the App it leaves, and the name of the branch taken;
\* a left-hand panel that is active afterwards is noted as the recent one,
\* and the table selected when modify mode begins as the modified one
Step(op, a2) ==
    /\ app.running
    /\ app' = [a2 EXCEPT !.recent_left_panel =
                   IF a2.state.active_panel \in LeftPanels
                   THEN a2.state.active_panel ELSE @,
                         !.modified_table =
                   IF ~a2.state.is_modifying THEN None
                   ELSE IF ~app.state.is_modifying THEN a2.state.selected_table
                   ELSE @]
    /\ last_op' = op
    /\ UNCHANGED <<schema, now, call>>

NormalMode ==
    /\ ~app.show_file_browser
    /\ ~state.is_entering_database_name
    /\ ~state.is_searching
    /\ ~(state.is_creating_table /\ state.table_creation_step = "EnteringTableName")
InViewer == NormalMode /\ state.active_panel = "MainContent" /\ IsSome(state.table_data)
Browsing == NormalMode /\ ~state.is_modifying /\ ~state.inspect_mode
Reordering ==
    NormalMode /\ state.is_modifying /\ state.active_panel = "MainContent"
    /\ ~state.inspect_mode

\* '2'
Key2 ==
    /\ NormalMode
    /\ Step("2", WithState(Begin, set_left_panel(state, "TableList", now)))

\* Enter in the table list: the table is selected and loaded
EnterSelectTable ==
    /\ Browsing /\ state.active_panel = "TableList"
    /\ \E ans \in UnfilteredAnswers : Step("select_table", handle_enter(Begin, ans))

\* 'k' in the table viewer
RowUp ==
    /\ Browsing /\ state.active_panel = "MainContent"
    /\ Step("k", handle_vim_up(Begin, NoAnswer))

\* 'j' in the table viewer
RowDown ==
    /\ Browsing /\ state.active_panel = "MainContent"
    /\ Step("j", handle_vim_down(Begin, NoAnswer))

\* 'K' outside modify mode
ExtremeUp ==
    /\ NormalMode /\ ~state.is_modifying
    /\ Step("K", handle_extreme_up(Begin, NoAnswer))

\* 'J' outside modify mode
ExtremeDown ==
    /\ NormalMode /\ ~state.is_modifying
    /\ Step("J", handle_extreme_down(Begin, NoAnswer))

\* 'h' in the table viewer outside modify mode
ColumnLeft ==
    /\ Browsing /\ state.active_panel = "MainContent"
    /\ Step("h", handle_vim_left(Begin, NoAnswer))

\* 'l' in the table viewer outside modify mode
ColumnRight ==
    /\ Browsing /\ state.active_panel = "MainContent"
    /\ Step("l", handle_vim_right(Begin, NoAnswer))

\* 'H' outside modify mode
ExtremeLeft ==
    /\ NormalMode /\ ~state.is_modifying
    /\ Step("H", handle_extreme_left(Begin, NoAnswer))

\* 'L' outside modify mode
ExtremeRight ==
    /\ NormalMode /\ ~state.is_modifying
    /\ Step("L", handle_extreme_right(Begin, NoAnswer))

\* Enter in the table viewer outside modify mode
EnterToggleExpansion ==
    /\ Browsing /\ state.active_panel = "MainContent"
    /\ Step("toggle_expansion", handle_enter(Begin, NoAnswer))

\* 'm'
KeyModify ==
    /\ NormalMode
    /\ Step("m", handle_modify_mode(Begin))

\* 'h' / 'l' in modify mode in the table viewer: the selected column moves
ReorderStep ==
    /\ Reordering
    /\ \E ans \in AnswersTo(state) :
          \/ Step("reorder_left", handle_vim_left(Begin, ans))
          \/ Step("reorder_right", handle_vim_right(Begin, ans))

\* 'H' / 'K' / 'L' / 'J' in modify mode: the selected column moves to an end
ReorderExtreme ==
    /\ NormalMode /\ state.is_modifying
    /\ \E ans \in AnswersTo(state) :
          \/ Step("reorder_first", handle_extreme_left(Begin, ans))
          \/ Step("reorder_first", handle_extreme_up(Begin, ans))
          \/ Step("reorder_last", handle_extreme_right(Begin, ans))
          \/ Step("reorder_last", handle_extreme_down(Begin, ans))

\* 'o' in modify mode
KeyToggleVisibility ==
    /\ NormalMode /\ state.is_modifying
    /\ \E ans \in AnswersTo(state) :
          Step("o", fetch_table_data_preserve_column(
                        WithState(Begin, toggle_column_visibility(state)), ans))

\* Enter in modify mode
EnterConfirmModify ==
    /\ NormalMode /\ state.is_modifying
    /\ Step("confirm_modify", handle_enter(Begin, NoAnswer))

\* Esc in modify mode
EscCancelModify ==
    /\ NormalMode /\ state.is_modifying
    /\ \E ans \in AnswersTo(state) :
          Step("cancel_modify", fetch_table_data_preserve_column(
                                    WithState(Begin, cancel_modifying(state)), ans))

\* 'a' / 'A' in the table viewer, while the chain is short of MaxChain or
\* holds the selected column
KeySort ==
    /\ InViewer
    /\ \/ Len(state.sort_columns) < MaxChain
       \/ state.selected_column
             \in {Some(n) : n \in Range(SortNames(state.sort_columns))}
    /\ \E ans \in AnswersTo(state) :
          \/ Step("a", fetch_table_data_preserve_column(
                           WithState(Begin, toggle_in_sort_chain(state, TRUE)), ans))
          \/ Step("A", fetch_table_data_preserve_column(
                           WithState(Begin, toggle_in_sort_chain(state, FALSE)), ans))

\* 'c' in the table viewer
KeyClearSort ==
    /\ InViewer
    /\ \E ans \in AnswersTo(state) :
          Step("c", fetch_table_data_preserve_column(
                        WithState(Begin, clear_sort(state)), ans))

\* 'f' in the table viewer, while fewer than MaxFilters columns are
\* filtered or the selected column is one of them
KeyFilter ==
    /\ InViewer
    /\ \/ Cardinality(DOMAIN state.column_filters) < MaxFilters
       \/ state.selected_column \in {Some(n) : n \in DOMAIN state.column_filters}
    /\ Step("f", IF IsSome(get_selected_column_index(state))
                 THEN WithState(Begin, start_column_search(
                          state, Unwrap(get_selected_column_index(state))))
                 ELSE Begin)

\* 'F' in the table viewer
KeyClearFilter ==
    /\ InViewer
    /\ \E ans \in EngineAnswers :
          Step("F", IF IsSome(state.selected_column)
                    THEN fetch_table_data_preserve_column_with_limit(
                             WithState(Begin, clear_column_filter(
                                 state, Unwrap(state.selected_column))),
                             FALSE, ans)
                    ELSE Begin)

\* a character typed in search mode
SearchChar ==
    /\ ~state.is_entering_database_name /\ state.is_searching
    /\ Len(state.search_text) < MaxSearchLen
    /\ \E c \in SearchChars, valid \in BOOLEAN :
          Step("search_char", validate_search_syntax(
                   WithState(Begin, add_char_to_search(state, c, now)), valid))

\* Backspace in search mode
SearchBackspace ==
    /\ ~state.is_entering_database_name /\ state.is_searching
    /\ \E valid \in BOOLEAN :
          Step("search_backspace", validate_search_syntax(
                   WithState(Begin, remove_char_from_search(state, now)), valid))

\* Enter in search mode
SearchEnter ==
    /\ ~state.is_entering_database_name /\ state.is_searching
    /\ \E ans \in EngineAnswers :
          Step("search_enter",
               IF finalize_search_ok(state)
               THEN fetch_table_data_preserve_column_with_limit(
                        WithState(Begin, finalize_search(state)), FALSE, ans)
               ELSE WithState(Begin, finalize_search(state)))

\* Esc in search mode
SearchEsc ==
    /\ ~state.is_entering_database_name /\ state.is_searching
    /\ Step("search_esc", WithState(Begin, cancel_search(state)))

\* render_table_viewer: the frame is drawn with a table area h lines high
Render ==
    \E h \in 0..MaxAreaHeight :
       /\ ~(state.inspect_mode /\ IsSome(state.selected_table))
       /\ Step("render", WithState(app, [state EXCEPT !.last_table_area_height = h]))

-----------------------------------------------------------------------------
(* ApplicationState methods called directly, with any arguments *)

\* the indices a caller may pass: every position of the widest table and
\* one past it
MaxIndex == 3

CallReorderColumn ==
    \E from_index \in 0..MaxIndex, to_index \in 0..MaxIndex :
       Step("reorder_column",
            WithState(Begin, reorder_column(state, from_index, to_index)))

CallToggleColumnVisibility ==
    Step("toggle_column_visibility", WithState(Begin, toggle_column_visibility(state)))

CallSetPrimarySort ==
    \E ascending \in BOOLEAN :
       Step("set_primary_sort", WithState(Begin, set_primary_sort(state, ascending)))

CallToggleInSortChain ==
    \E ascending \in BOOLEAN :
       Step("toggle_in_sort_chain",
            WithState(Begin, toggle_in_sort_chain(state, ascending)))

CallClearSort ==
    Step("clear_sort", WithState(Begin, clear_sort(state)))

CallMoveSelected ==
    \/ Step("move_selected_left", WithState(Begin, move_selected_left(state)))
    \/ Step("move_selected_right", WithState(Begin, move_selected_right(state)))

\* DatabaseWorkflows::select_table followed by fetch_table_data, as every
\* caller does
CallSelectTable ==
    \E table \in TableNames, ans \in UnfilteredAnswers :
       Step("select_table",
            fetch_table_data(WithState(Begin, select_table(state, table)), ans))

\* fetch_table_data_preserve_column
CallRefresh ==
    \E ans \in AnswersTo(state) :
       Step("refresh", fetch_table_data_preserve_column(Begin, ans))

-----------------------------------------------------------------------------
(* Specifications *)

Init ==
    /\ app = NewApp
    /\ schema = SmallSchema
    /\ now = 0
    /\ call = None
    /\ last_op = "init"

\* the ApplicationState methods on the column order and the hidden columns,
\* called in any order with any arguments
NextApi ==
    \/ CallSelectTable
    \/ CallReorderColumn
    \/ CallToggleColumnVisibility
    \/ CallMoveSelected
    \/ CallRefresh

SpecApi == Init /\ [][NextApi]_vars

\* the ApplicationState methods on the sort chain, with the selection
\* changes and table switches between them
NextSort ==
    \/ CallSelectTable
    \/ CallMoveSelected
    \/ CallSetPrimarySort
    \/ CallToggleInSortChain
    \/ CallClearSort

SpecSort == Init /\ [][NextSort]_vars
\* the keys that open the first table of the list and select, reorder, hide
\* and show its columns
Next ==
    \/ Key2
    \/ EnterSelectTable
    \/ ColumnLeft
    \/ ColumnRight
    \/ ExtremeLeft
    \/ ExtremeRight
    \/ KeyModify
    \/ ReorderStep
    \/ ReorderExtreme
    \/ KeyToggleVisibility
    \/ EnterConfirmModify
    \/ EscCancelModify

Spec == Init /\ [][Next]_vars

\* the keys that open the first table of the list, move the row selection
\* and expand columns, with the frames drawn in between
NextRows ==
    \/ Key2
    \/ EnterSelectTable
    \/ Render
    \/ RowUp
    \/ RowDown
    \/ ExtremeUp
    \/ ExtremeDown
    \/ ColumnRight
    \/ EnterToggleExpansion

SpecRows == Init /\ [][NextRows]_vars

\* the keys that open the first table of the list, move down its rows and
\* reorder, hide and show its columns
NextReorder ==
    \/ Key2
    \/ EnterSelectTable
    \/ RowDown
    \/ ColumnRight
    \/ KeyModify
    \/ ReorderStep
    \/ ReorderExtreme
    \/ KeyToggleVisibility
    \/ EnterConfirmModify

SpecReorder == Init /\ [][NextReorder]_vars

\* a table of six columns; the keys that open it, move down its rows, jump
\* to its last column, hide columns, change the sort chain and commit a
\* filter
InitWide ==
    /\ app = NewApp
    /\ schema = WideSchema
    /\ now = 0
    /\ call = None
    /\ last_op = "init"

NextWide ==
    \/ Key2
    \/ EnterSelectTable
    \/ RowDown
    \/ ExtremeRight
    \/ KeyModify
    \/ KeyToggleVisibility
    \/ EnterConfirmModify
    \/ KeySort
    \/ KeyClearSort
    \/ KeyFilter
    \/ SearchChar
    \/ SearchEnter

SpecWide == InitWide /\ [][NextWide]_vars

-----------------------------------------------------------------------------
(* Properties *)

\* the number of times x occurs in seq
Occurrences(seq, x) == Cardinality({i \in 1..Len(seq) : seq[i] = x})

\* p holds the names of q, each as many times as q does
IsPermutation(p, q) ==
    /\ Len(p) = Len(q)
    /\ \A x \in Range(p) \cup Range(q) : Occurrences(p, x) = Occurrences(q, x)

\* C1: for every table, whatever reorder_column and toggle_column_visibility
\* calls were made (indices in range or not), the table's virtual column
\* order is a permutation of the original column order that
\* initialize_column_order captured: same names, no duplicates, no drops.
C1_PermutationInvariant ==
    /\ \A t \in TableNames :
          IsSome(state.column_order[t])
             => IsPermutation(Unwrap(state.column_order[t]), schema[t])
    /\ (IsSome(state.selected_table) /\ state.original_column_names # <<>>)
          => /\ state.original_column_names = schema[Unwrap(state.selected_table)]
             /\ IsPermutation(get_virtual_column_order(state),
                              state.original_column_names)

\* C1 witness: a reorder_column call has left an order that differs from the
\* original one while a column is hidden
C1_Witness ==
    /\ last_op = "reorder_column"
    /\ IsSome(state.selected_table)
    /\ Len(state.original_column_names) = 3
    /\ get_virtual_column_order(state) # state.original_column_names
    /\ state.hidden_columns[Unwrap(state.selected_table)] # {}

\* C2: get_visible_column_names() is the selected table's virtual order with
\* exactly the names of that table's hidden set removed, the remaining names
\* in the relative order the virtual order gives them.
C2_VisibleSetCorrect ==
    LET order == get_virtual_column_order(state)
        hidden == IF IsSome(state.selected_table)
                  THEN state.hidden_columns[Unwrap(state.selected_table)]
                  ELSE {}
        visible == get_visible_column_names(state)
    IN  /\ Range(visible) = Range(order) \ hidden
        /\ \A x \in Range(visible) : Occurrences(visible, x) = Occurrences(order, x)
        /\ \A i, j \in 1..Len(visible) :
              i < j => \E k, l \in 1..Len(order) :
                          k < l /\ order[k] = visible[i] /\ order[l] = visible[j]

\* C2 witness: two columns are visible in an order that is not the original
\* one, and a third is hidden
C2_Witness ==
    /\ IsSome(state.selected_table)
    /\ Len(get_visible_column_names(state)) = 2
    /\ Cardinality(state.hidden_columns[Unwrap(state.selected_table)]) = 1
    /\ \E i, j \in 1..Len(state.original_column_names) :
          /\ i < j
          /\ get_visible_column_names(state) =
                <<state.original_column_names[j], state.original_column_names[i]>>

\* the sort chain a set_primary_sort(ascending) call has to leave
PrimarySortResult(chain, x, ascending) ==
    IF chain # <<>> /\ chain[1] = SortColumnSpec(x, DirectionOf(ascending))
    THEN <<>>
    ELSE <<SortColumnSpec(x, DirectionOf(ascending))>>

\* C3: with a column x selected, set_primary_sort replaces the whole chain by
\* the single entry (x, requested direction), unless the primary entry
\* already is (x, same direction), and then the chain becomes empty; so a
\* second call with the same direction empties the chain the first one set,
\* and ascending then descending leaves exactly <<(x, descending)>>.
C3_SetPrimarySort ==
    /\ [][(last_op' = "set_primary_sort" /\ IsSome(state.selected_column))
            => \E ascending \in BOOLEAN :
                  state'.sort_columns =
                     PrimarySortResult(state.sort_columns,
                                       Unwrap(state.selected_column), ascending)]_vars
    /\ [](IsSome(state.selected_column)
            => \A ascending \in BOOLEAN :
                 LET x == Unwrap(state.selected_column)
                     once == set_primary_sort(state, ascending)
                     twice == set_primary_sort(once, ascending)
                     other == set_primary_sort(once, ~ascending)
                 IN  /\ (once.sort_columns # <<>> => twice.sort_columns = <<>>)
                     /\ other.sort_columns =
                           <<SortColumnSpec(x, DirectionOf(~ascending))>>)

\* C3 witness: set_primary_sort has emptied a chain
C3_Witness ==
    /\ last_op = "set_primary_sort"
    /\ IsSome(state.selected_column)
    /\ state.sort_columns = <<>>

\* the first position of column name c in the chain, 0 when it has none
ChainIndex(chain, c) ==
    IF \E i \in 1..Len(chain) : chain[i].column_name = c
    THEN CHOOSE i \in 1..Len(chain) :
            /\ chain[i].column_name = c
            /\ \A j \in 1..(i - 1) : chain[j].column_name # c
    ELSE 0

\* the relation toggle_in_sort_chain(ascending) has to establish between the
\* chain before and the chain after, c being the selected column
ToggledInChain(before, after, c, ascending) ==
    LET i == ChainIndex(before, c)
        d == DirectionOf(ascending)
    IN  CASE i = 0 ->
               /\ Len(after) = Len(before) + 1
               /\ after[Len(after)] = SortColumnSpec(c, d)
               /\ \A j \in 1..Len(before) : after[j] = before[j]
          [] i > 0 /\ before[i].direction # d ->
               /\ Len(after) = Len(before)
               /\ after[i] = SortColumnSpec(c, d)
               /\ \A j \in 1..Len(before) : j # i => after[j] = before[j]
          [] OTHER ->
               /\ Len(after) = Len(before) - 1
               /\ \A j \in 1..Len(after) :
                     after[j] = IF j < i THEN before[j] ELSE before[j + 1]

C5_SortChainDistinct ==
    \A i, j \in 1..Len(state.sort_columns) :
       i # j => state.sort_columns[i].column_name # state.sort_columns[j].column_name

\* C5 witness: every column of the table is in the chain
C5_Witness ==
    /\ Len(state.sort_columns) = 3
    /\ state.sort_columns[3].direction = Ascending
    /\ state.selected_column = Some(state.sort_columns[1].column_name)

\* the selection that hiding column c has to leave: the first visible
\* column after c in the order, else the last visible one before c, else none
SelectionAfterHide(order, hidden, c) ==
    LET i == CHOOSE k \in 1..Len(order) : order[k] = c
        after == {k \in 1..Len(order) : k > i /\ order[k] \notin hidden}
        before == {k \in 1..Len(order) : k < i /\ order[k] \notin hidden}
    IN  IF after # {} THEN Some(order[CHOOSE k \in after : \A l \in after : k <= l])
        ELSE IF before # {}
        THEN Some(order[CHOOSE k \in before : \A l \in before : k >= l])
        ELSE None

\* C6: when toggle_column_visibility hides the selected column, the
\* selection becomes the next visible column after it in virtual order; if
\* there is none, the nearest visible column before it; if no column stays
\* visible, none.
C6_SelectionSurvivesHide ==
    [][(/\ last_op' = "toggle_column_visibility"
        /\ IsSome(state.selected_table)
        /\ IsSome(state.selected_column)
        /\ Unwrap(state.selected_column) \in Range(get_virtual_column_order(state))
        /\ Unwrap(state.selected_column)
              \notin state.hidden_columns[Unwrap(state.selected_table)])
         => /\ state'.hidden_columns[Unwrap(state.selected_table)] =
                  state.hidden_columns[Unwrap(state.selected_table)]
                     \cup {Unwrap(state.selected_column)}
            /\ state'.selected_column =
                  SelectionAfterHide(
                      get_virtual_column_order(state),
                      state'.hidden_columns[Unwrap(state.selected_table)],
                      Unwrap(state.selected_column))]_vars

\* C6 witness: after a hide the selection stands on a visible column that
\* has a hidden column before it and only hidden columns after it
C6_Witness ==
    /\ last_op = "toggle_column_visibility"
    /\ IsSome(state.selected_table)
    /\ IsSome(state.selected_column)
    /\ LET order == get_virtual_column_order(state)
           hidden == state.hidden_columns[Unwrap(state.selected_table)]
       IN  /\ Len(order) = 3
           /\ state.selected_column = Some(order[2])
           /\ order[1] \in hidden
           /\ order[3] \in hidden

\* C7: in every reachable state of the key-driven application the selected
\* column is none or a column that is visible now: in the virtual order and
\* not in the hidden set of the selected table.
C7_SelectionIsVisible ==
    IsSome(state.selected_column)
       => /\ IsSome(state.selected_table)
          /\ Unwrap(state.selected_column) \in Range(get_virtual_column_order(state))
          /\ Unwrap(state.selected_column)
                \notin state.hidden_columns[Unwrap(state.selected_table)]

\* the selected row lies in the window of rows that fit in the viewport
RowInWindow(s) ==
    LET visible_rows == calculate_visible_data_rows_from_height(
                            s, s.last_table_area_height, Unwrap(s.table_data))
    IN  s.scroll_y <= s.selected_row /\ s.selected_row < s.scroll_y + visible_rows

\* C8: after every row-selection move in the table viewer ('k', 'j', 'K',
\* 'J') scroll_y <= selected_row < scroll_y + visible_rows, visible_rows
\* being the number of rows that fit in the viewport.
C8_ViewportContainment ==
    [][(/\ last_op' \in {"k", "j", "K", "J"}
        /\ state.active_panel = "MainContent"
        /\ IsSome(state.table_data)
        /\ Unwrap(state.table_data).rows # <<>>)
         => RowInWindow(state')]_vars

\* the keys that only reorder, hide or show a column
LayoutOps == {"reorder_left", "reorder_right", "reorder_first", "reorder_last", "o"}

\* C9: a pure column reorder or hide/show whose re-query succeeds leaves
\* selected_row and scroll_y as they were.
C9_LayoutKeepsRowPosition ==
    [][(/\ last_op' \in LayoutOps
        /\ app'.refresh = "ok"
        /\ \/ state'.column_order # state.column_order
           \/ state'.hidden_columns # state.hidden_columns)
         => /\ state'.selected_row = state.selected_row
            /\ state'.scroll_y = state.scroll_y]_vars

\* the keys that change the sort chain or commit a filter
QueryOps == {"a", "A", "c", "search_enter"}

\* a key of QueryOps changed the sort chain or the committed filters, and
\* its re-query succeeded
QueryChanged ==
    /\ last_op' \in QueryOps
    /\ app'.refresh = "ok"
    /\ \/ state'.sort_columns # state.sort_columns
       \/ state'.column_filters # state.column_filters

\* the selected column of s is visible
SelectedVisible(s) ==
    /\ IsSome(s.selected_column)
    /\ IsSome(s.selected_table)
    /\ Unwrap(s.selected_column) \in Range(get_virtual_column_order(s))
    /\ Unwrap(s.selected_column) \notin s.hidden_columns[Unwrap(s.selected_table)]

\* the 0-based index of the selected column of s in the virtual order
SelectedIndex(s) ==
    (CHOOSE k \in 1..Len(get_virtual_column_order(s)) :
        get_virtual_column_order(s)[k] = Unwrap(s.selected_column)) - 1

\* the selected column of s is not left of the horizontal scroll position
SelectedInView(s) == SelectedVisible(s) /\ SelectedIndex(s) >= s.scroll_x

-----------------------------------------------------------------------------
(* The SQL text of the current view *)

\* a String built from the characters of a text buffer
RECURSIVE Str(_)
Str(chars) == IF chars = <<>> THEN "" ELSE Head(chars) \o Str(Tail(chars))

\* [String]::join(sep)
RECURSIVE Join(_, _)
Join(parts, sep) ==
    IF parts = <<>> THEN ""
    ELSE IF Len(parts) = 1 THEN parts[1]
    ELSE parts[1] \o sep \o Join(Tail(parts), sep)

\* the orders in which a HashMap may hand out its keys
KeyOrders(map) ==
    {keys \in [1..Cardinality(DOMAIN map) -> DOMAIN map] :
        \A i, j \in DOMAIN keys : i # j => keys[i] # keys[j]}

\* get_filter_sql_clause, the filter map iterated in the order `keys`
get_filter_sql_clause(s, keys) ==
    IF DOMAIN s.column_filters = {} THEN None
    ELSE Some("WHERE " \o Join([i \in DOMAIN keys |->
                                   keys[i] \o " " \o Str(s.column_filters[keys[i]])],
                               " AND "))

\* get_sort_sql_clause(_column_names): the argument is not read
get_sort_sql_clause(s) ==
    IF s.sort_columns = <<>> THEN None
    ELSE Some("ORDER BY " \o Join([i \in DOMAIN s.sort_columns |->
                 s.sort_columns[i].column_name \o " " \o
                 (IF s.sort_columns[i].direction = Ascending THEN "ASC" ELSE "DESC")],
                                  ", "))

\* faulty variant of generate_view_sql: the columns are listed in the
\* original order, hidden ones included
generate_view_sql_all(s, table_name, keys) ==
    IF IsSome(s.selected_table) /\ s.original_column_names # <<>>
    THEN Some("SELECT " \o Join(s.original_column_names, ", ")
                 \o " FROM " \o table_name)
    ELSE None

\* generate_view_sql(table_name), the filter map iterated in the order `keys`
generate_view_sql(s, table_name, keys) ==
    IF IsSome(s.selected_table)
    THEN LET visible_column_names == get_visible_column_names(s)
         IN  IF visible_column_names = <<>> THEN None
             ELSE LET sql == "SELECT " \o Join(visible_column_names, ", ")
                                \o " FROM " \o table_name
                      filter_clause == get_filter_sql_clause(s, keys)
                      sql1 == IF IsSome(filter_clause)
                              THEN sql \o " " \o Unwrap(filter_clause) ELSE sql
                      sort_clause == get_sort_sql_clause(s)
                  IN  Some(IF IsSome(sort_clause)
                           THEN sql1 \o " " \o Unwrap(sort_clause) ELSE sql1)
    ELSE None

\* the query text fetch_table_data_preserve_column_with_limit hands to
\* execute_query_direct once initialize_column_order has run
refresh_sql(s, table, include_limit, keys) ==
    LET sql == "SELECT " \o Join(get_visible_column_names(s), ", ")
                  \o " FROM " \o table
        filter_clause == get_filter_sql_clause(s, keys)
        sql1 == IF IsSome(filter_clause)
                THEN sql \o " " \o Unwrap(filter_clause) ELSE sql
        sort_clause == get_sort_sql_clause(s)
        sql2 == IF IsSome(sort_clause) THEN sql1 \o " " \o Unwrap(sort_clause) ELSE sql1
    IN  IF include_limit THEN sql2 \o " LIMIT 1000" ELSE sql2

\* a table t1 with the columns id, name, age
ViewSchema == [t \in TableNames |->
                 IF t = "t1" THEN <<"id", "name", "age">> ELSE <<"id">>]

InitView ==
    /\ app = NewApp
    /\ schema = ViewSchema
    /\ now = 0
    /\ call = None
    /\ last_op = "init"

\* 'k' / 'j' in the table list
TableListMove ==
    /\ Browsing /\ state.active_panel = "TableList"
    /\ \/ Step("k", handle_vim_up(Begin, NoAnswer))
       \/ Step("j", handle_vim_down(Begin, NoAnswer))

\* the keys that open the first table, select a column, hide columns,
\* change the sort chain and commit a filter
NextView ==
    \/ Key2
    \/ EnterSelectTable
    \/ ColumnRight
    \/ KeyModify
    \/ KeyToggleVisibility
    \/ EnterConfirmModify
    \/ KeySort
    \/ KeyClearSort
    \/ KeyFilter
    \/ SearchChar
    \/ SearchEnter

SpecView == InitView /\ [][NextView]_vars

\* the text the claim gives for the view of s on table t: the visible
\* columns, then the filters, then the sort chain
ViewText(s, t, keys) ==
    LET hidden == s.hidden_columns[t]
        order == get_virtual_column_order(s)
        shown == FilterSeq(order, Range(order) \ hidden)
        where == IF DOMAIN s.column_filters = {} THEN ""
                 ELSE " WHERE " \o Join([i \in DOMAIN keys |->
                         keys[i] \o " " \o Str(s.column_filters[keys[i]])], " AND ")
        dir(d) == IF d = Ascending THEN "ASC" ELSE "DESC"
        order_by == IF s.sort_columns = <<>> THEN ""
                    ELSE " ORDER BY " \o Join([i \in DOMAIN s.sort_columns |->
                            s.sort_columns[i].column_name \o " "
                               \o dir(s.sort_columns[i].direction)], ", ")
    IN  "SELECT " \o Join(shown, ", ") \o " FROM " \o t \o where \o order_by

\* C11: the query built for the current view is SELECT, the visible column
\* names in virtual order separated by ", ", FROM and the table, then the
\* WHERE clause when there are filters, then the ORDER BY clause when the
\* chain is not empty; the refresh sends this text, with LIMIT 1000 after it
\* when it limits the rows.  With id, name, age, age hidden and the chain
\* <<(name, asc)>> it is SELECT id, name FROM t1 ORDER BY name ASC, and with
\* the chain empty again SELECT id, name FROM t1.
C11_ViewQuery ==
    (IsSome(state.selected_table) /\ get_visible_column_names(state) # <<>>)
       => LET t == Unwrap(state.selected_table)
              age_hidden == /\ get_virtual_column_order(state) = <<"id", "name", "age">>
                            /\ state.hidden_columns[t] = {"age"}
                            /\ DOMAIN state.column_filters = {}
          IN  /\ \A keys \in KeyOrders(state.column_filters) :
                    /\ generate_view_sql(state, t, keys) = Some(ViewText(state, t, keys))
                    /\ refresh_sql(state, t, FALSE, keys) = ViewText(state, t, keys)
                    /\ refresh_sql(state, t, TRUE, keys) =
                          ViewText(state, t, keys) \o " LIMIT 1000"
              /\ (age_hidden /\ state.sort_columns = <<SortColumnSpec("name", Ascending)>>)
                    => generate_view_sql(state, t, <<>>) =
                          Some("SELECT id, name FROM t1 ORDER BY name ASC")
              /\ (age_hidden /\ state.sort_columns = <<>>)
                    => generate_view_sql(state, t, <<>>) = Some("SELECT id, name FROM t1")

\* C11 witness: with age hidden, 'a' on name has just put (name, asc) into
\* the chain and the view reads SELECT id, name FROM t1 ORDER BY name ASC
C11_Witness ==
    /\ last_op = "a"
    /\ state.selected_table = Some("t1")
    /\ state.hidden_columns["t1"] = {"age"}
    /\ state.sort_columns = <<SortColumnSpec("name", Ascending)>>
    /\ generate_view_sql(state, "t1", <<>>) =
          Some("SELECT id, name FROM t1 ORDER BY name ASC")
-----------------------------------------------------------------------------
(* Panel cycling, the database-name input and the keys around them *)

Panels == {"DatabaseList", "TableList", "MainContent", "StatusBar"}

\* faulty variant of next_panel: the data viewer always leads to the
\* database list
next_panel_first(s, t) ==
    LET new_panel == IF s.active_panel \in LeftPanels THEN "MainContent"
                     ELSE "DatabaseList"
        s1 == IF s.active_panel # new_panel THEN start_panel_flash(s, t) ELSE s
    IN  [s1 EXCEPT !.active_panel = new_panel,
                   !.last_left_panel = IF new_panel \in LeftPanels THEN new_panel ELSE @]

\* next_panel, called at time t
next_panel(s, t) ==
    LET new_panel == IF s.active_panel \in LeftPanels THEN "MainContent"
                     ELSE IF s.active_panel = "MainContent" THEN s.last_left_panel
                     ELSE "DatabaseList"
        s1 == IF s.active_panel # new_panel THEN start_panel_flash(s, t) ELSE s
    IN  [s1 EXCEPT !.active_panel = new_panel,
                   !.last_left_panel = IF new_panel \in LeftPanels THEN new_panel ELSE @]

\* faulty variant of prev_panel: the database list leads to the data viewer
prev_panel_skip(s, t) ==
    LET new_panel == CASE s.active_panel = "DatabaseList" -> "MainContent"
                       [] s.active_panel = "TableList" -> "DatabaseList"
                       [] s.active_panel = "MainContent" -> "TableList"
                       [] s.active_panel = "StatusBar" -> "MainContent"
        s1 == IF s.active_panel # new_panel THEN start_panel_flash(s, t) ELSE s
    IN  [s1 EXCEPT !.active_panel = new_panel]

\* prev_panel, called at time t
prev_panel(s, t) ==
    LET new_panel == CASE s.active_panel = "DatabaseList" -> "StatusBar"
                       [] s.active_panel = "TableList" -> "DatabaseList"
                       [] s.active_panel = "MainContent" -> "TableList"
                       [] s.active_panel = "StatusBar" -> "MainContent"
        s1 == IF s.active_panel # new_panel THEN start_panel_flash(s, t) ELSE s
    IN  [s1 EXCEPT !.active_panel = new_panel]

\* start_database_name_input
start_database_name_input(s) ==
    [s EXCEPT !.is_entering_database_name = TRUE, !.new_database_name = <<>>]

\* cancel_database_name_input
cancel_database_name_input(s) ==
    [s EXCEPT !.is_entering_database_name = FALSE, !.new_database_name = <<>>]

\* add_char_to_database_name(c)
add_char_to_database_name(s, c) == [s EXCEPT !.new_database_name = Append(@, c)]

\* remove_char_from_database_name
remove_char_from_database_name(s) ==
    [s EXCEPT !.new_database_name = IF @ = <<>> THEN @ ELSE SubSeq(@, 1, Len(@) - 1)]

\* the longest name typed
MaxNameLen == 1

\* Tab
KeyTab ==
    /\ NormalMode
    /\ Step("Tab",
            IF state.inspect_mode THEN WithState(Begin, inspect_cycle_section(state))
            ELSE IF state.database_dropdown_expanded
            THEN WithState(Begin, set_dropdown_to_current_database(
                     collapse_database_dropdown(state), app.selected_db_index))
            ELSE WithState(Begin, next_panel(state, now)))

\* BackTab
KeyBackTab ==
    /\ NormalMode
    /\ Step("BackTab", WithState(Begin, prev_panel(state, now)))

\* the arrow keys
ArrowKey ==
    /\ NormalMode
    /\ \E ans \in AnswersTo(state) :
          \/ Step("Up", handle_vim_up(Begin, ans))
          \/ Step("Down", handle_vim_down(Begin, ans))
          \/ Step("Left", handle_vim_left(Begin, ans))
          \/ Step("Right", handle_vim_right(Begin, ans))

\* Enter in the database list: the dropdown opens, or the database under
\* its cursor is selected and the dropdown closes
EnterDatabaseList ==
    /\ Browsing /\ state.active_panel = "DatabaseList"
    /\ Step("dropdown", handle_enter(Begin, NoAnswer))

\* Esc with the dropdown open, outside modify and inspect mode
EscDropdown ==
    /\ Browsing /\ state.database_dropdown_expanded
    /\ Step("dropdown_esc", WithState(Begin, set_dropdown_to_current_database(
                collapse_database_dropdown(state), app.selected_db_index)))

\* 'n'
KeyNewDatabase ==
    /\ NormalMode
    /\ Step("n", WithState(Begin, start_database_name_input(state)))

\* a character typed into the database name
NameChar ==
    /\ state.is_entering_database_name
    /\ Len(state.new_database_name) < MaxNameLen
    /\ \E c \in SearchChars :
          Step("name_char", WithState(Begin, add_char_to_database_name(state, c)))

\* Backspace in the database name
NameBackspace ==
    /\ state.is_entering_database_name
    /\ Step("name_backspace", WithState(Begin, remove_char_from_database_name(state)))

\* Esc in the database name
NameEsc ==
    /\ state.is_entering_database_name
    /\ Step("name_esc", WithState(Begin, cancel_database_name_input(state)))

\* 'q': run_app leaves its loop without handing the key to handle_key
KeyQuit == Step("q", [Begin EXCEPT !.running = FALSE])

\* the keys that open and close the dropdown, the database-name input, the
\* filter search and modify mode, with Tab, Shift-Tab, the arrows and 'q'
NextModal ==
    \/ Key2
    \/ EnterSelectTable
    \/ EnterDatabaseList
    \/ EscDropdown
    \/ KeyTab
    \/ KeyBackTab
    \/ ArrowKey
    \/ KeyModify
    \/ EscCancelModify
    \/ KeyFilter
    \/ SearchChar
    \/ SearchEsc
    \/ KeyNewDatabase
    \/ NameChar
    \/ NameBackspace
    \/ NameEsc
    \/ KeyQuit

\* two tables of one column each
ModalSchema == [t \in TableNames |-> <<"a">>]

InitModal ==
    /\ app = NewApp
    /\ schema = ModalSchema
    /\ now = 0
    /\ call = None
    /\ last_op = "init"

SpecModal == InitModal /\ [][NextModal]_vars

\* the modals that are active in s
ActiveModals(s) ==
    {m \in {"database_name", "dropdown", "search", "modify"} :
        CASE m = "database_name" -> s.is_entering_database_name
          [] m = "dropdown" -> s.database_dropdown_expanded
          [] m = "search" -> s.is_searching
          [] m = "modify" -> s.is_modifying}

\* C12: in every reachable state at most one modal is active among the name
\* input, the open database dropdown, the filter search and modify mode.
C12_AtMostOneModal == Cardinality(ActiveModals(state)) <= 1

\* C13: while a modal is active, Tab, Shift-Tab and the arrow keys change
\* neither active_panel nor last_left_panel.
C13_ModalKeepsPanel ==
    [][(/\ ActiveModals(state) # {}
        /\ last_op' \in {"Tab", "BackTab", "Up", "Down", "Left", "Right"})
         => /\ state'.active_panel = state.active_panel
            /\ state'.last_left_panel = state.last_left_panel]_vars

\* C14: while a text input (database name, filter search) is active, a
\* character key, 'q' included, is appended to its text buffer, leaves the
\* input active and does not end the session.
C14_TextModalOwnsKeys ==
    [][/\ (state.is_entering_database_name /\ last_op' \in {"name_char", "q"})
            => /\ app'.running
               /\ state'.is_entering_database_name
               /\ Len(state'.new_database_name) = Len(state.new_database_name) + 1
       /\ (state.is_searching /\ last_op' \in {"search_char", "q"})
            => /\ app'.running
               /\ state'.is_searching
               /\ Len(state'.search_text) = Len(state.search_text) + 1]_vars
-----------------------------------------------------------------------------
(* The panel methods, called in any order as time passes *)

\* the last instant of the clock
MaxTime == 4

\* time passes: Instant::now() returns a later instant
Tick ==
    /\ now < MaxTime
    /\ now' = now + 1
    /\ last_op' = "tick"
    /\ UNCHANGED <<app, schema, call>>

\* next_panel
CallNextPanel == Step("next_panel", WithState(Begin, next_panel(state, now)))

\* prev_panel
CallPrevPanel == Step("prev_panel", WithState(Begin, prev_panel(state, now)))

\* set_left_panel(panel)
CallSetLeftPanel ==
    \E panel \in LeftPanels :
       Step("set_left_panel", WithState(Begin, set_left_panel(state, panel, now)))

NextPanels ==
    \/ Tick
    \/ CallNextPanel
    \/ CallPrevPanel
    \/ CallSetLeftPanel

SpecPanels == Init /\ [][NextPanels]_vars

\* the panel next_panel has to lead to
NextOf(s) ==
    CASE s.active_panel \in {"DatabaseList", "TableList"} -> "MainContent"
      [] s.active_panel = "MainContent" -> s.last_left_panel
      [] s.active_panel = "StatusBar" -> "DatabaseList"

\* C15: next_panel maps DatabaseList and TableList to MainContent,
\* MainContent to last_left_panel and StatusBar to DatabaseList; it starts
\* the flash timer exactly when the active panel changes, and sets
\* last_left_panel to the new panel whenever that is DatabaseList or
\* TableList (and leaves it alone otherwise).
C15_NextPanel ==
    [][last_op' = "next_panel"
         => /\ state'.active_panel = NextOf(state)
            /\ state'.panel_flash_timer =
                  IF state'.active_panel # state.active_panel
                  THEN Some(now) ELSE state.panel_flash_timer
            /\ state'.last_left_panel =
                  IF state'.active_panel \in {"DatabaseList", "TableList"}
                  THEN state'.active_panel ELSE state.last_left_panel]_vars

\* C15 witness: next_panel has led from the data viewer back to the table
\* list, the last left panel used, and started the flash
C15_Witness ==
    /\ last_op = "next_panel"
    /\ state.active_panel = "TableList"
    /\ state.last_left_panel = "TableList"
    /\ now > 0
    /\ state.panel_flash_timer = Some(now)

\* the panel before p in the cycle of prev_panel
PrevOf(p) ==
    CASE p = "DatabaseList" -> "StatusBar"
      [] p = "StatusBar" -> "MainContent"
      [] p = "MainContent" -> "TableList"
      [] p = "TableList" -> "DatabaseList"

\* C16: prev_panel steps through the cycle DatabaseList, StatusBar,
\* MainContent, TableList, DatabaseList; every step starts the flash timer;
\* four calls in a row lead back to the panel they started from.
C16_PrevPanelCycle ==
    /\ [][last_op' = "prev_panel"
            => /\ state'.active_panel = PrevOf(state.active_panel)
               /\ state'.active_panel # state.active_panel
               /\ state'.panel_flash_timer = Some(now)]_vars
    /\ [](LET p1 == prev_panel(state, now)
              p2 == prev_panel(p1, now)
              p3 == prev_panel(p2, now)
              p4 == prev_panel(p3, now)
          IN  /\ p4.active_panel = state.active_panel
              /\ {state.active_panel, p1.active_panel, p2.active_panel,
                  p3.active_panel} = Panels)

\* C16 witness: prev_panel has led from the database list to the status bar
\* and restarted the flash
C16_Witness ==
    /\ last_op = "prev_panel"
    /\ state.active_panel = "StatusBar"
    /\ now > 1
    /\ state.panel_flash_timer = Some(now)
-----------------------------------------------------------------------------
(* Failed refresh *)

\* what the table viewer shows and where its selection stands
ViewerPosition(s) ==
    <<s.table_data, s.selected_row, s.selected_column, s.scroll_x, s.scroll_y>>

\* C17: a refresh whose query fails adds an error notification and leaves
\* table_data, selected_row, selected_column, scroll_x and scroll_y as they
\* were when the refresh began; the application keeps running.  Stated for
\* the refresh called in any reachable state, and for the keys that refresh:
\* after a sort key or a committed filter the five fields are those before
\* the key, after 'o' those toggle_column_visibility left.
C17_FailedRefreshKeepsView ==
    /\ [](\A ans \in EngineAnswers, include_limit \in BOOLEAN :
            LET a2 == fetch_table_data_preserve_column_with_limit(
                          Begin, include_limit, ans)
            IN  a2.refresh = "failed"
                   => /\ ViewerPosition(a2.state) = ViewerPosition(state)
                      /\ "Error" \in a2.state.notifications
                      /\ a2.running = app.running)
    /\ [][(app'.refresh = "failed" /\ last_op' \in {"a", "A", "c", "search_enter", "o"})
            => /\ ViewerPosition(state') =
                     IF last_op' = "o"
                     THEN ViewerPosition(toggle_column_visibility(state))
                     ELSE ViewerPosition(state)
               /\ "Error" \in state'.notifications
               /\ app'.running]_vars

\* C17 witness: the refresh after a sort key has failed with the second row
\* or a later one selected, and the selection is still there
C17_Witness ==
    /\ last_op \in {"a", "A"}
    /\ app.refresh = "failed"
    /\ IsSome(state.table_data)
    /\ state.selected_row > 0
    /\ state.sort_columns # <<>>
    /\ "Error" \in state.notifications
    /\ app.running
-----------------------------------------------------------------------------
(* Table switch *)

\* the keys that open either table of the list, select a column, change
\* the sort chain and commit a filter
NextSwitch ==
    \/ Key2
    \/ TableListMove
    \/ EnterSelectTable
    \/ ColumnRight
    \/ KeySort
    \/ KeyFilter
    \/ SearchChar
    \/ SearchEnter

SpecSwitch == Init /\ [][NextSwitch]_vars

\* the step selected a table other than the one selected before
SwitchedTable ==
    /\ last_op' = "select_table"
    /\ IsSome(state.selected_table)
    /\ IsSome(state'.selected_table)
    /\ state'.selected_table # state.selected_table

\* C18: after select_table has switched to a different table, the sort
\* chain and the column-filter map are both empty.
C18_SwitchClearsSortAndFilters ==
    [][SwitchedTable
         => /\ state'.sort_columns = <<>>
            /\ DOMAIN state'.column_filters = {}]_vars

\* C19: the hidden-column set is kept per table and survives switching away
\* and back: select_table changes no table's hidden set, the table it loads
\* comes without the columns hidden in it, and a hide or show changes the
\* hidden set of the selected table only.
C19_HiddenPerTable ==
    /\ [][state'.hidden_columns # state.hidden_columns
            => /\ last_op' = "toggle_column_visibility"
               /\ IsSome(state.selected_table)
               /\ \A t \in TableNames \ {Unwrap(state.selected_table)} :
                     state'.hidden_columns[t] = state.hidden_columns[t]]_vars
    /\ [][(last_op' = "select_table" /\ app'.refresh = "ok")
            => Range(Unwrap(state'.table_data).columns)
                  = Range(schema[Unwrap(state'.selected_table)])
                       \ state.hidden_columns[Unwrap(state'.selected_table)]]_vars

\* C19 witness: t1 has been selected again and loaded while a column is
\* hidden in it and another set of columns is hidden in t2
C19_Witness ==
    /\ last_op = "select_table"
    /\ app.refresh = "ok"
    /\ state.selected_table = Some("t1")
    /\ state.hidden_columns["t1"] = {"b"}
    /\ state.hidden_columns["t2"] = {"d"}
    /\ Unwrap(state.table_data).columns = <<"a", "c">>

\* C20: when select_table has switched to a different table and loaded it,
\* the virtual column order is the table's original schema order.
C20_SwitchResetsOrder ==
    [][(SwitchedTable /\ app'.refresh = "ok")
         => get_virtual_column_order(state') = schema[Unwrap(state'.selected_table)]]_vars
-----------------------------------------------------------------------------
(* reorder_column: the indices it accepts and the order it leaves *)

\* the order that results from taking the element at 0-based index from out
\* of order and putting it back at index to
MovedOrder(order, from, to) ==
    [k \in 1..Len(order) |->
        IF k - 1 = to THEN order[from + 1]
        ELSE IF from < to /\ k - 1 >= from /\ k - 1 < to THEN order[k + 1]
        ELSE IF to < from /\ k - 1 > to /\ k - 1 <= from THEN order[k - 1]
        ELSE order[k]]

\* C21: reorder_column(from, to) with from or to not below the number of
\* columns returns false and leaves the virtual order and every other field
\* of the state unchanged; with both indices in range it returns true and the
\* new virtual order is the old one with the element at from removed and
\* reinserted at index to.
C21_ReorderBounds ==
    \A from_index \in 0..MaxIndex, to_index \in 0..MaxIndex :
       LET order == get_virtual_column_order(state)
           after == reorder_column(state, from_index, to_index)
       IN  IF from_index >= Len(order) \/ to_index >= Len(order)
           THEN /\ ~reorder_column_ok(state, from_index, to_index)
                /\ after = state
           ELSE /\ reorder_column_ok(state, from_index, to_index)
                /\ get_virtual_column_order(after)
                      = MovedOrder(order, from_index, to_index)

\* C21 witness: a reorder_column call has moved the first of three columns to
\* the last place, so that an index one past the end is now out of range
C21_Witness ==
    /\ last_op = "reorder_column"
    /\ IsSome(state.selected_table)
    /\ Len(state.original_column_names) = 3
    /\ get_virtual_column_order(state)
          = MovedOrder(state.original_column_names, 0, 2)
    /\ ~reorder_column_ok(state, 0, MaxIndex)
-----------------------------------------------------------------------------
(* truncate_text and wrap_text, called with any text and width *)

\* the longest text of the two-letter alphabet, and the widest width, passed
MaxTextLen == 5
MaxWidth == 9

TextChars == {"a", "b"}

\* the texts passed: every text of TextChars up to MaxTextLen characters,
\* and "hello world", "hi" and "abcdefgh"
Texts ==
    UNION {[1..n -> TextChars] : n \in 0..MaxTextLen}
    \cup {<<"h", "e", "l", "l", "o", " ", "w", "o", "r", "l", "d">>,
          <<"h", "i">>,
          <<"a", "b", "c", "d", "e", "f", "g", "h">>}

CallTruncateText ==
    \E text \in Texts, max_width \in 0..MaxWidth :
       /\ call' = Some([fn |-> "truncate_text", text |-> text,
                        max_width |-> max_width,
                        result |-> truncate_text(text, max_width)])
       /\ last_op' = "truncate_text"
       /\ UNCHANGED <<app, schema, now>>

CallWrapText ==
    \E text \in Texts, max_width \in 0..MaxWidth :
       /\ call' = Some([fn |-> "wrap_text", text |-> text,
                        max_width |-> max_width,
                        result |-> wrap_text(text, max_width)])
       /\ last_op' = "wrap_text"
       /\ UNCHANGED <<app, schema, now>>

NextText ==
    \/ CallTruncateText
    \/ CallWrapText

SpecText == Init /\ [][NextText]_vars

\* C22: truncate_text(s, n) returns s unchanged whenever s has at most n
\* characters, and otherwise the first n-3 characters of s followed by "...";
\* for every s and n the result has at most n characters.
C22_TruncateText ==
    (IsSome(call) /\ Unwrap(call).fn = "truncate_text")
       => LET s == Unwrap(call).text
              n == Unwrap(call).max_width
              result == Unwrap(call).result
          IN  /\ Len(s) <= n => result = s
              /\ Len(s) > n =>
                    result = SubSeq(s, 1, n - 3) \o <<".", ".", ".">>
              /\ Len(result) <= n

\* the lines of a wrapped text put back together
RECURSIVE Flatten(_)
Flatten(lines) ==
    IF lines = <<>> THEN <<>> ELSE Head(lines) \o Flatten(Tail(lines))

\* C23: wrap_text(s, n) for n >= 1 returns lines of at most n characters each
\* whose concatenation, in order, is exactly s, and every line but the last
\* has exactly n characters; wrap_text("abcdefgh", 3) is "abc", "def", "gh".
C23_WrapText ==
    (IsSome(call) /\ Unwrap(call).fn = "wrap_text" /\ Unwrap(call).max_width >= 1)
       => LET s == Unwrap(call).text
              n == Unwrap(call).max_width
              lines == Unwrap(call).result
          IN  /\ \A i \in 1..Len(lines) : Len(lines[i]) <= n
              /\ Flatten(lines) = s
              /\ \A i \in 1..(Len(lines) - 1) : Len(lines[i]) = n
              /\ (s = <<"a", "b", "c", "d", "e", "f", "g", "h">> /\ n = 3)
                    => lines = << <<"a", "b", "c">>, <<"d", "e", "f">>,
                                  <<"g", "h">> >>

\* C23 witness: wrap_text("abcdefgh", 3) has returned two full lines and a
\* shorter last one
C23_Witness ==
    /\ IsSome(call)
    /\ Unwrap(call).fn = "wrap_text"
    /\ Unwrap(call).text = <<"a", "b", "c", "d", "e", "f", "g", "h">>
    /\ Unwrap(call).max_width = 3
    /\ Len(Unwrap(call).result) = 3
    /\ Len(Unwrap(call).result[3]) = 2
-----------------------------------------------------------------------------
(* The clock, and what every iteration of run_app does before it draws *)

\* flash_duration_ms, as ApplicationState::new sets it
flash_duration_ms == 1000

\* the debounce interval of should_debounce_update, in ms
debounce_ms == 600

\* is_panel_flashing, called at time t
is_panel_flashing(s, t) ==
    IF IsSome(s.panel_flash_timer)
    THEN t - Unwrap(s.panel_flash_timer) < flash_duration_ms
    ELSE FALSE

\* update_flash_timer, called at time t
update_flash_timer(s, t) ==
    IF IsSome(s.panel_flash_timer)
       /\ t - Unwrap(s.panel_flash_timer) >= flash_duration_ms
    THEN [s EXCEPT !.panel_flash_timer = None]
    ELSE s

\* should_debounce_update, called at time t
should_debounce_update(s, t) ==
    IF IsSome(s.search_debounce_timer)
    THEN t - Unwrap(s.search_debounce_timer) >= debounce_ms
    ELSE FALSE

\* remove_expired_notifications: `expired` are the notifications on display
\* whose duration has elapsed
remove_expired_notifications(s, expired) ==
    [s EXCEPT !.notifications = @ \ expired]

\* faulty variant of check_search_debounce: the filters are not restored
\* after the preview
check_search_debounce_persist(a, t, ans) ==
    LET s == a.state
    IN  IF s.is_searching /\ s.search_syntax_valid /\ should_debounce_update(s, t)
        THEN LET s1 == [s EXCEPT !.search_debounce_timer = None]
             IN  IF Trim(s1.search_text) # <<>> /\ IsSome(s1.search_column)
                 THEN LET name == get_column_name_by_index(s1, Unwrap(s1.search_column))
                          s2 == IF IsSome(name)
                                THEN [s1 EXCEPT !.column_filters =
                                         MapInsert(@, Unwrap(name), Trim(s1.search_text))]
                                ELSE s1
                      IN  fetch_table_data_preserve_column_with_limit(
                              WithState(a, s2), TRUE, ans)
                 ELSE WithState(a, s1)
        ELSE a

\* faulty variant of check_search_debounce: the timer is left set after the
\* preview
check_search_debounce_keep_timer(a, t, ans) ==
    LET s == a.state
    IN  IF s.is_searching /\ s.search_syntax_valid /\ should_debounce_update(s, t)
        THEN IF Trim(s.search_text) # <<>> /\ IsSome(s.search_column)
             THEN LET saved_filters == s.column_filters
                      name == get_column_name_by_index(s, Unwrap(s.search_column))
                      s2 == IF IsSome(name)
                            THEN [s EXCEPT !.column_filters =
                                     MapInsert(@, Unwrap(name), Trim(s.search_text))]
                            ELSE s
                      a3 == fetch_table_data_preserve_column_with_limit(
                                WithState(a, s2), TRUE, ans)
                  IN  WithState(a3, [a3.state EXCEPT !.column_filters = saved_filters])
             ELSE a
        ELSE a

\* check_search_debounce, called at time t; ans is the engine's answer to the
\* preview query
check_search_debounce(a, t, ans) ==
    LET s == a.state
    IN  IF s.is_searching /\ s.search_syntax_valid /\ should_debounce_update(s, t)
        THEN LET s1 == [s EXCEPT !.search_debounce_timer = None]
             IN  IF Trim(s1.search_text) # <<>> /\ IsSome(s1.search_column)
                 THEN LET saved_filters == s1.column_filters
                          name == get_column_name_by_index(s1, Unwrap(s1.search_column))
                          s2 == IF IsSome(name)
                                THEN [s1 EXCEPT !.column_filters =
                                         MapInsert(@, Unwrap(name), Trim(s1.search_text))]
                                ELSE s1
                          a3 == fetch_table_data_preserve_column_with_limit(
                                    WithState(a, s2), TRUE, ans)
                      IN  [a3 EXCEPT !.state.column_filters = saved_filters,
                                     !.shown_preview =
                                         IF a3.refresh = "ok" THEN TRUE ELSE @]
                 ELSE WithState(a, s1)
        ELSE a

\* update_notifications, called at time t
update_notifications(a, t, expired, ans) ==
    check_search_debounce(
        WithState(a, update_flash_timer(
                         remove_expired_notifications(a.state, expired), t)),
        t, ans)

\* the last instant of the clock, and the time that passes between two events
MaxClock == 1200
Delays == {200}

\* time passes
Elapse ==
    \E d \in Delays :
       /\ now + d <= MaxClock
       /\ now' = now + d
       /\ last_op' = "elapse"
       /\ UNCHANGED <<app, schema, call>>

\* the head of the loop of run_app: update_notifications
UpdateNotifications ==
    \E expired \in SUBSET state.notifications,
       ans \in IF should_debounce_update(state, now) THEN EngineAnswers ELSE {NoAnswer} :
       Step("update_notifications", update_notifications(Begin, now, expired, ans))
-----------------------------------------------------------------------------
(* Filter search with the live preview *)

\* the search keys, the clock and the head of the event loop
NextDebounce ==
    \/ Key2
    \/ EnterSelectTable
    \/ ColumnRight
    \/ KeyFilter
    \/ SearchChar
    \/ SearchBackspace
    \/ SearchEnter
    \/ SearchEsc
    \/ Elapse
    \/ UpdateNotifications

SpecDebounce == InitModal /\ [][NextDebounce]_vars

\* the step was an update_notifications call that sent the preview query
PreviewFired ==
    last_op' = "update_notifications" /\ app'.refresh # "none"

\* the map after has an entry the map before has not
EntryAdded(before, after) ==
    \E k \in DOMAIN after : k \notin DOMAIN before \/ after[k] # before[k]

\* C24: a live filter preview never changes the committed filters: the
\* filter map after an update_notifications call, whether its preview query
\* succeeds or fails, equals the map before it; no step between the start of
\* a search and its end changes the map, so cancelling the search leaves the
\* map as it was when the search started; and only Enter in search mode with
\* valid, non-empty text adds an entry.
C24_PreviewKeepsFilters ==
    [][/\ last_op' = "update_notifications"
             => state'.column_filters = state.column_filters
       /\ (state.is_searching /\ (state'.is_searching \/ last_op' = "search_esc"))
             => state'.column_filters = state.column_filters
       /\ EntryAdded(state.column_filters, state'.column_filters)
             => /\ last_op' = "search_enter"
                /\ state.is_searching
                /\ state.search_syntax_valid
                /\ Trim(state.search_text) # <<>>]_vars

\* C24 witness: a preview query has just succeeded during a search, with
\* text typed and no filter committed
C24_Witness ==
    /\ last_op = "update_notifications"
    /\ app.refresh = "ok"
    /\ state.is_searching
    /\ Trim(state.search_text) # <<>>
    /\ DOMAIN state.column_filters = {}

\* C25: a preview query is sent only from a search whose debounce timer is
\* set and at least 600 ms old, and sending it clears the timer; every edit
\* (character added or removed) sets the timer to the time of the edit, and
\* nothing else sets it.  So the timer, while set, is the time of the most
\* recent edit with no preview since, and each edit is followed by at most one
\* preview.
C25_Debounce ==
    [][/\ PreviewFired
             => /\ state.is_searching
                /\ IsSome(state.search_debounce_timer)
                /\ now >= Unwrap(state.search_debounce_timer) + debounce_ms
                /\ state'.search_debounce_timer = None
       /\ last_op' \in {"search_char", "search_backspace"}
             => state'.search_debounce_timer = Some(now)
       /\ (state'.search_debounce_timer # state.search_debounce_timer
           /\ IsSome(state'.search_debounce_timer))
             => last_op' \in {"search_char", "search_backspace"}]_vars

\* C25 witness: a preview has been sent 600 ms or more after the clock
\* started, and the timer is cleared while the search goes on
C25_Witness ==
    /\ last_op = "update_notifications"
    /\ app.refresh # "none"
    /\ state.is_searching
    /\ state.search_debounce_timer = None
    /\ now >= debounce_ms
-----------------------------------------------------------------------------
(* Table creation: the table name input, the file browser and the import *)

\* start_table_creation
start_table_creation(s) ==
    [s EXCEPT !.is_creating_table = TRUE,
              !.current_state = "ImportWizard",
              !.new_table_name = <<>>,
              !.table_creation_step = "EnteringTableName"]

\* cancel_table_creation
cancel_table_creation(s) ==
    show_info([s EXCEPT !.is_creating_table = FALSE,
                        !.current_state = "DatabaseBrowser",
                        !.new_table_name = <<>>,
                        !.table_creation_step = "EnteringTableName"])

\* confirm_table_name
confirm_table_name(s) ==
    IF Trim(s.new_table_name) # <<>>
    THEN [s EXCEPT !.table_creation_step = "SelectingFile"]
    ELSE s

\* add_char_to_table_name(c)
add_char_to_table_name(s, c) ==
    IF s.is_creating_table /\ s.table_creation_step = "EnteringTableName"
    THEN [s EXCEPT !.new_table_name = Append(@, c)]
    ELSE s

\* remove_char_from_table_name
remove_char_from_table_name(s) ==
    IF s.is_creating_table /\ s.table_creation_step = "EnteringTableName"
    THEN [s EXCEPT !.new_table_name = IF @ = <<>> THEN @ ELSE SubSeq(@, 1, Len(@) - 1)]
    ELSE s

\* set_importing_data
set_importing_data(s) == [s EXCEPT !.table_creation_step = "ImportingData"]

\* complete_table_creation(success)
complete_table_creation(s, success) ==
    LET table_name == Str(s.new_table_name)
        s1 == IF success
              THEN [show_success(s) EXCEPT !.selected_table = Some(table_name),
                                           !.active_panel = "TableList"]
              ELSE show_error(s)
    IN  [s1 EXCEPT !.is_creating_table = FALSE,
                   !.current_state = "DatabaseBrowser",
                   !.new_table_name = <<>>,
                   !.table_creation_step = "EnteringTableName"]

\* App::start_table_creation
app_start_table_creation(a) ==
    IF IsSome(a.current_database)
    THEN WithState(a, start_table_creation(a.state))
    ELSE WithState(a, show_error(a.state))

\* open_file_browser: `opened` is whether FileBrowser::new succeeds
open_file_browser(a, opened) ==
    IF opened
    THEN [a EXCEPT !.show_file_browser = TRUE, !.state = show_info(a.state)]
    ELSE WithState(a, show_error(a.state))

\* DatabaseWorkflows::import_file_to_table returning Ok: the table is in the
\* database, the manager's table list is refreshed, the table is selected
import_file_to_table(a, table_name) ==
    [a EXCEPT !.tables = Append(@, table_name),
              !.state = select_table(
                            select_database(show_success(a.state),
                                            Unwrap(a.current_database)),
                            table_name)]

\* the names the engine can create a table under: the tables of the schema
\* that the database does not hold yet
CanImport(a, table_name) ==
    /\ IsSome(a.current_database)
    /\ table_name \in TableNames
    /\ table_name \notin Range(a.tables)

\* the file browser returned a data file (csv, json, parquet); `imported` is
\* whether the import succeeds
select_data_file(a, imported, ans) ==
    LET s == a.state
    IN  IF s.is_creating_table /\ s.table_creation_step = "SelectingFile"
        THEN LET table_name == Str(s.new_table_name)
                 a1 == WithState(a, set_importing_data(s))
             IN  IF imported
                 THEN LET a2 == import_file_to_table(a1, table_name)
                          a3 == WithState(a2, complete_table_creation(a2.state, TRUE))
                      IN  fetch_table_data(sync_selected_table_index(a3), ans)
                 ELSE WithState(a1, complete_table_creation(show_error(a1.state), FALSE))
        ELSE WithState(a, show_error(s))

\* the table names the user types, character by character
TableNameTexts == {<<"t", "1">>, <<"t", "2">>}
TableNameChars == {"t", "1", "2"}

\* the text is the beginning of one of the names typed
IsNamePrefix(text) ==
    \E name \in TableNameTexts :
       Len(text) <= Len(name) /\ SubSeq(name, 1, Len(text)) = text

\* '1', '3'
Key1 ==
    /\ NormalMode
    /\ Step("1", WithState(Begin, set_left_panel(state, "DatabaseList", now)))

Key3 ==
    /\ NormalMode
    /\ Step("3", WithState(Begin, set_active_panel(state, "MainContent", now)))

\* 'i': table creation in the table list, inspect mode in the table viewer
KeyImport ==
    /\ NormalMode
    /\ Step("i", CASE state.active_panel = "TableList" -> app_start_table_creation(Begin)
                   [] state.active_panel = "MainContent" ->
                        IF IsSome(state.table_data)
                        THEN WithState(Begin, enter_inspect_mode(state))
                        ELSE Begin
                   [] OTHER -> Begin)

\* the table name input: a character, Backspace, Enter, Esc
TableNameInput ==
    /\ ~app.show_file_browser
    /\ ~state.is_entering_database_name /\ ~state.is_searching
    /\ state.is_creating_table /\ state.table_creation_step = "EnteringTableName"

TableNameChar ==
    /\ TableNameInput
    /\ \E c \in TableNameChars :
          /\ IsNamePrefix(Append(state.new_table_name, c))
          /\ Step("table_name_char", WithState(Begin, add_char_to_table_name(state, c)))

TableNameBackspace ==
    /\ TableNameInput
    /\ Step("table_name_backspace", WithState(Begin, remove_char_from_table_name(state)))

TableNameEnter ==
    /\ TableNameInput
    /\ \E opened \in BOOLEAN :
          Step("table_name_enter",
               IF Trim(state.new_table_name) # <<>>
               THEN open_file_browser(WithState(Begin, confirm_table_name(state)), opened)
               ELSE Begin)

TableNameEsc ==
    /\ TableNameInput
    /\ Step("table_name_esc", WithState(Begin, cancel_table_creation(state)))

\* 'o' outside modify mode: the file browser is opened
KeyOpenFileBrowser ==
    /\ NormalMode /\ ~state.is_modifying
    /\ \E opened \in BOOLEAN : Step("o", open_file_browser(Begin, opened))

\* Esc in the file browser
FileBrowserEsc ==
    /\ app.show_file_browser
    /\ Step("browser_esc", [Begin EXCEPT !.show_file_browser = FALSE])

\* any other key in the file browser: it moves within the browser, or it
\* returns a file that is no database file: a data file, whose import
\* succeeds or fails, or a file of an unsupported type
FileBrowserKey ==
    /\ app.show_file_browser
    /\ \/ Step("browser_move", Begin)
       \/ \E imported \in BOOLEAN, ans \in UnfilteredAnswers :
             /\ imported => CanImport(app, Str(state.new_table_name))
             /\ Step("browser_data_file",
                     [select_data_file(Begin, imported, ans)
                         EXCEPT !.show_file_browser = FALSE])
       \/ Step("browser_unsupported",
               [Begin EXCEPT !.show_file_browser = FALSE,
                             !.state = show_error(state)])

\* a database whose one table is t1; t2 is what a data file holds
InitFlash ==
    /\ app = [NewApp EXCEPT !.tables = <<"t1">>]
    /\ schema = ModalSchema
    /\ now = 0
    /\ call = None
    /\ last_op = "init"

\* the panel keys and the table import, as time passes and the loop of
\* run_app goes round
NextFlash ==
    \/ Key1
    \/ Key2
    \/ Key3
    \/ KeyTab
    \/ KeyBackTab
    \/ KeyImport
    \/ TableNameChar
    \/ TableNameBackspace
    \/ TableNameEnter
    \/ TableNameEsc
    \/ KeyOpenFileBrowser
    \/ FileBrowserEsc
    \/ FileBrowserKey
    \/ Elapse
    \/ UpdateNotifications

SpecFlash == InitFlash /\ [][NextFlash]_vars

\* C26: set_active_panel(p) and set_left_panel(p) called with p equal to the
\* active panel are no-ops: the flash timer is not started and active_panel
\* and last_left_panel keep their values; called with a different p they
\* start the flash timer and make p the active panel, and set_left_panel
\* updates last_left_panel only when p is DatabaseList or TableList.
C26_SetPanelNoOp ==
    \A p \in Panels :
       LET set == set_active_panel(state, p, now)
           left == set_left_panel(state, p, now)
       IN  IF p = state.active_panel
           THEN /\ set = state
                /\ left = state
           ELSE /\ set = [state EXCEPT !.panel_flash_timer = Some(now),
                                       !.active_panel = p]
                /\ left = [state EXCEPT !.panel_flash_timer = Some(now),
                                        !.active_panel = p,
                                        !.last_left_panel =
                                            IF p \in LeftPanels THEN p ELSE @]

\* C27: after a panel change at time t the flash timer holds t, so that the
\* active panel is flashing exactly while now < t + 1000 ms; an
\* update_notifications call before that deadline leaves the timer set, one
\* at or after it clears the timer; and the timer is set by nothing but a
\* panel change, so that a panel whose deadline has passed is not flashing
\* again until the next panel change.
C27_FlashLifecycle ==
    /\ [][/\ state'.active_panel # state.active_panel
                => /\ state'.panel_flash_timer = Some(now)
                   /\ is_panel_flashing(state', now)
          /\ last_op' = "update_notifications"
                => state'.panel_flash_timer =
                      IF IsSome(state.panel_flash_timer)
                         /\ now < Unwrap(state.panel_flash_timer) + flash_duration_ms
                      THEN state.panel_flash_timer
                      ELSE None
          /\ state'.panel_flash_timer # state.panel_flash_timer
                => \/ state'.active_panel # state.active_panel
                   \/ last_op' = "update_notifications"]_vars
    /\ [](is_panel_flashing(state, now)
             <=> /\ IsSome(state.panel_flash_timer)
                 /\ now < Unwrap(state.panel_flash_timer) + flash_duration_ms)
-----------------------------------------------------------------------------
(* get_sort_sql_clause, called with any column names on any sort chain *)

\* the column names of the schema
AllColumns == UNION {Range(schema[t]) : t \in TableNames}

\* get_sort_sql_clause(column_names): the state is left as it is, so the
\* result is get_sort_sql_clause(state) after the call as before it
CallGetSortSqlClause ==
    \E column_names \in SUBSET AllColumns :
       /\ app.running
       /\ call' = Some([fn |-> "get_sort_sql_clause",
                        column_names |-> column_names])
       /\ last_op' = "get_sort_sql_clause"
       /\ UNCHANGED <<app, schema, now>>

\* the sort chain methods and get_sort_sql_clause
NextSortSql ==
    \/ CallSelectTable
    \/ CallMoveSelected
    \/ CallSetPrimarySort
    \/ CallToggleInSortChain
    \/ CallClearSort
    \/ CallGetSortSqlClause

SpecSortSql == Init /\ [][NextSortSql]_vars

\* the item of the ORDER BY list for a chain entry
SortItem(entry) ==
    entry.column_name \o " " \o (IF entry.direction = Ascending THEN "ASC" ELSE "DESC")

\* C28: get_sort_sql_clause(column_names) returns none for an empty chain and
\* otherwise ORDER BY followed by one `<col> ASC|DESC` item per chain entry in
\* chain order, skipping every chain entry whose column is not among
\* column_names (when no entry is left the result is not constrained).
C28_SortClauseSkipsUnknown ==
    (last_op = "get_sort_sql_clause")
       => LET chain == state.sort_columns
              known == FilterSeq(chain, {e \in Range(chain) :
                                           e.column_name \in Unwrap(call).column_names})
              result == get_sort_sql_clause(state)
          IN  /\ chain = <<>> => result = None
              /\ known # <<>> =>
                    result = Some("ORDER BY " \o
                                  Join([i \in DOMAIN known |-> SortItem(known[i])], ", "))

\* C29: 'c' in the table viewer leaves both the sort chain and the filter
\* map empty.
C29_ClearEmptiesSortAndFilters ==
    [][last_op' = "c"
          => /\ state'.sort_columns = <<>>
             /\ DOMAIN state'.column_filters = {}]_vars

\* ---------------------------------------------------------------------
\* Moving the column selection (C30)
\* ---------------------------------------------------------------------

\* the visible columns of s on the given side of the selected column, as
\* indices of the virtual order (side -1: before, side 1: after)
VisibleBeside(s, side) ==
    LET names == get_column_names(s)
    IN  {i \in 0..(Len(names) - 1) :
            /\ ~is_column_hidden_by_name(s, At(names, i))
            /\ \E k \in 0..(Len(names) - 1) :
                  /\ s.selected_column = Some(At(names, k))
                  /\ (i - k) * side > 0}

\* what a move of the selection to the given side must leave behind
MovedSelection(s, t, side) ==
    LET names == get_column_names(s)
        beside == VisibleBeside(s, side)
        visible == {i \in 0..(Len(names) - 1) :
                       ~is_column_hidden_by_name(s, At(names, i))}
    IN  IF IsSome(s.selected_column)
        THEN IF beside # {}
             THEN \E i \in beside :
                     /\ t.selected_column = Some(At(names, i))
                     /\ \A j \in beside : (j - i) * side >= 0
             ELSE t = s
        ELSE IF visible # {}
             THEN \E i \in visible :
                     /\ t.selected_column = Some(At(names, i))
                     /\ \A j \in visible : i <= j
             ELSE t.selected_column = None

\* C30: move_selected_left / move_selected_right select the nearest visible
\* column before / after the selected one in the virtual order, hidden
\* columns being skipped; when no visible column lies on that side the
\* whole state is left as it was; with no column selected the first visible
\* column is selected.
C30_MoveSelected ==
    [][/\ (last_op' = "move_selected_left") => MovedSelection(state, state', -1)
       /\ (last_op' = "move_selected_right") => MovedSelection(state, state', 1)]_vars

\* a move to the right has passed over a hidden column: the selected
\* column has the hidden one and a visible one before it
C30_Witness ==
    /\ last_op = "move_selected_right"
    /\ LET names == get_column_names(state)
       IN  \E k \in 2..(Len(names) - 1) :
              /\ state.selected_column = Some(At(names, k))
              /\ is_column_hidden_by_name(state, At(names, k - 1))
              /\ \E i \in 0..(k - 2) : ~is_column_hidden_by_name(state, At(names, i))

\* ---------------------------------------------------------------------
\* The selected row (C31)
\* ---------------------------------------------------------------------

\* the keys that load a table, move over its rows, sort and filter it, with
\* the live preview of the filter search
NextRowSel ==
    \/ Key2
    \/ EnterSelectTable
    \/ RowUp
    \/ RowDown
    \/ ExtremeUp
    \/ ExtremeDown
    \/ ColumnRight
    \/ KeySort
    \/ KeyFilter
    \/ KeyClearFilter
    \/ SearchChar
    \/ SearchEnter
    \/ SearchEsc
    \/ Elapse
    \/ UpdateNotifications

SpecRowSel == InitModal /\ [][NextRowSel]_vars

\* the number of rows of the table data of s (0 when none is loaded)
RowCount(s) == IF IsSome(s.table_data) THEN Len(Unwrap(s.table_data).rows) ELSE 0

\* C31: while table data with at least one row is loaded, selected_row is
\* between 0 and row_count - 1 after every operation; 'k' / 'j' in the table
\* viewer change selected_row by exactly 1 and change nothing at the first /
\* last row; 'K' / 'J' set it to 0 / row_count - 1; every successful
\* refresh sets it to 0.
C31_SelectedRowInRange ==
    [][/\ RowCount(state') >= 1 => state'.selected_row \in 0..(RowCount(state') - 1)
       /\ (last_op' = "k" /\ RowCount(state) >= 1)
             => IF state.selected_row = 0
                THEN state' = state
                ELSE state'.selected_row = state.selected_row - 1
       /\ (last_op' = "j" /\ RowCount(state) >= 1)
             => IF state.selected_row = RowCount(state) - 1
                THEN state' = state
                ELSE state'.selected_row = state.selected_row + 1
       /\ (last_op' = "K" /\ RowCount(state) >= 1) => state'.selected_row = 0
       /\ (last_op' = "J" /\ RowCount(state) >= 1)
             => state'.selected_row = RowCount(state) - 1
       /\ app'.refresh = "ok" => state'.selected_row = 0]_vars

\* 'j' has brought the selection to the last row of a table of several rows
C31_Witness ==
    /\ last_op = "j"
    /\ RowCount(state) >= 2
    /\ state.selected_row = RowCount(state) - 1
    /\ state.scroll_y = 0

\* ---------------------------------------------------------------------
\* The columns render_table_widget puts on screen (C32, C33)
\* ---------------------------------------------------------------------

\* get_visible_columns: the virtual indices of the visible columns that
\* the original names hold
get_visible_columns(s) ==
    LET virtual_order == get_virtual_column_order(s)
        original_names == get_original_column_names(s)
        kept == {i \in 1..Len(virtual_order) :
                    /\ ~is_column_hidden_by_name(s, virtual_order[i])
                    /\ IsSome(Position(original_names, virtual_order[i]))}
    IN  [k \in 1..Cardinality(kept) |->
            (CHOOSE i \in kept : Cardinality({j \in kept : j < i}) = k - 1) - 1]

\* render_table_widget: the virtual column index of data column data_col_idx
render_virtual_col_idx(s, data_col_idx) ==
    LET visible_columns == get_visible_columns(s)
    IN  IF InRange(visible_columns, data_col_idx)
        THEN At(visible_columns, data_col_idx)
        ELSE data_col_idx

\* the widest cell of data column data_col_idx over the rows (0-based) in
\* row_idxs
RECURSIVE max_data_width(_, _, _)
max_data_width(data, data_col_idx, row_idxs) ==
    IF row_idxs = {} THEN 0
    ELSE LET r == CHOOSE x \in row_idxs : TRUE
             row == At(data.rows, r)
             cell == IF InRange(row, data_col_idx) THEN Len(At(row, data_col_idx)) ELSE 0
         IN  Max(cell, max_data_width(data, data_col_idx, row_idxs \ {r}))

\* render_table_widget: col_width of data column data_col_idx in an area of
\* the given height
render_col_width(s, data, data_col_idx, area_height) ==
    LET virtual_col_idx == render_virtual_col_idx(s, data_col_idx)
        available_height == SatSub(area_height, 3)
        start_row == s.scroll_y
        end_row == Min(start_row + available_height, Len(data.rows))
        head == header_width(s, At(data.columns, data_col_idx))
        sampled == IF is_column_expanded(s, virtual_col_idx)
                   THEN start_row..(end_row - 1)
                   ELSE 0..(Min(10, Len(data.rows)) - 1)
        widest == max_data_width(data, data_col_idx, sampled)
    IN  IF is_column_expanded(s, virtual_col_idx)
        THEN Min(Max(Max(head, widest), min_col_width), expanded_col_max_width)
        ELSE Min(Max(Max(head, widest), min_col_width), normal_col_max_width)

\* render_table_widget: the loop that takes the data columns from i on while
\* they fit
RECURSIVE render_pack(_, _, _, _, _, _)
render_pack(s, data, i, used_width, available_width, area_height) ==
    IF i < Len(data.columns)
       /\ used_width + render_col_width(s, data, i, area_height) <= available_width
    THEN {i} \cup render_pack(s, data, i + 1,
                              used_width + render_col_width(s, data, i, area_height),
                              available_width, area_height)
    ELSE {}

\* render_table_widget: visible_cols, the data columns drawn in an area of
\* the given width and height
render_visible_cols(s, data, area_width, area_height) ==
    LET available_width == SatSub(area_width, 2)
        start_col == s.scroll_x
        packed == render_pack(s, data, start_col, 0, available_width, area_height)
    IN  IF packed = {} /\ start_col < Len(data.columns) THEN {start_col} ELSE packed

\* the widths of the table area: too narrow for one column, room for some
\* of the columns of the wide table, room for all of them
AreaWidths == {8, 40, 80}

\* the keys that load a table, move the column selection, hide and show
\* columns
NextColumns ==
    \/ Key2
    \/ EnterSelectTable
    \/ ColumnLeft
    \/ ColumnRight
    \/ ExtremeLeft
    \/ ExtremeRight
    \/ KeyModify
    \/ KeyToggleVisibility
    \/ EnterConfirmModify

SpecColumns == InitWide /\ [][NextColumns]_vars

\* the selected column of s is drawn in an area of width w: its index among
\* the visible columns is at least scroll_x and among the columns drawn
SelectedDrawn(s, w) ==
    LET idx == Position(get_visible_column_names(s), Unwrap(s.selected_column))
    IN  /\ IsSome(idx)
        /\ Unwrap(idx) >= s.scroll_x
        /\ Unwrap(idx) \in render_visible_cols(s, Unwrap(s.table_data), w,
                                               s.last_table_area_height)

\* C32: after every left / right move of the selection in the table viewer
\* the selected column is inside the window of columns drawn, whatever the
\* width of the table area: its index in the visible layout is at least
\* scroll_x and it is one of the columns that fit from scroll_x on.
C32_SelectedColumnInWindow ==
    [][(/\ last_op' \in {"h", "l"}
        /\ state.active_panel = "MainContent"
        /\ IsSome(state'.table_data)
        /\ IsSome(state'.selected_column))
         => \A w \in AreaWidths : SelectedDrawn(state', w)]_vars

\* the sum of the widths render_table_widget gives the data columns in cols
RECURSIVE WidthOf(_, _, _, _)
WidthOf(s, data, cols, area_height) ==
    IF cols = {} THEN 0
    ELSE LET c == CHOOSE x \in cols : TRUE
         IN  render_col_width(s, data, c, area_height)
             + WidthOf(s, data, cols \ {c}, area_height)

\* the columns a table area of width w must show: the longest run of
\* consecutive data columns from scroll_x on whose widths add up to at most
\* the available width, and the column at scroll_x alone when it does not fit
LongestRun(s, data, w) ==
    LET h == s.last_table_area_height
        last == Len(data.columns) - 1
        fits(k) == WidthOf(s, data, s.scroll_x..k, h) <= SatSub(w, 2)
        ends == {k \in s.scroll_x..last : fits(k)}
    IN  IF ends = {}
        THEN {s.scroll_x}
        ELSE s.scroll_x..(CHOOSE k \in ends : \A j \in ends : j <= k)

\* C33: for a loaded table with at least one visible column the columns
\* drawn are the longest run of consecutive columns from scroll_x on whose
\* cumulative width is at most the available width, or the column at
\* scroll_x alone when not even that one fits; the list is never empty.
C33_RenderedColumns ==
    (/\ IsSome(state.table_data)
     /\ get_visible_column_names(state) # <<>>
     /\ Unwrap(state.table_data).columns # <<>>)
       => \A w \in AreaWidths :
             LET data == Unwrap(state.table_data)
                 drawn == render_visible_cols(state, data, w, state.last_table_area_height)
             IN  /\ drawn # {}
                 /\ drawn = LongestRun(state, data, w)

\* ---------------------------------------------------------------------
\* The rows that fit the table area (C34)
\* ---------------------------------------------------------------------

\* calculate_visible_data_rows: the loop counting the complete rows that fit
\* from row_idx (0-based) on, with the columns in cols on screen
RECURSIVE count_fitting_rows(_, _, _, _, _, _)
count_fitting_rows(s, data, cols, row_idx, used_height, available_height) ==
    IF row_idx < Len(data.rows)
       /\ used_height + MaxLines(s, data, At(data.rows, row_idx), cols) <= available_height
    THEN 1 + count_fitting_rows(s, data, cols, row_idx + 1,
                                used_height + MaxLines(s, data, At(data.rows, row_idx), cols),
                                available_height)
    ELSE 0

\* calculate_visible_data_rows(area, data)
calculate_visible_data_rows(s, area_width, area_height, data) ==
    LET available_height == SatSub(area_height, 3)
        packed == PackColumns(s, data, s.scroll_x, 0, SatSub(area_width, 2))
        visible_cols == IF packed = {} /\ s.scroll_x < Len(data.columns)
                        THEN {s.scroll_x} ELSE packed
    IN  IF data.rows = <<>> THEN 0
        ELSE Max(count_fitting_rows(s, data, visible_cols, s.scroll_y, 0, available_height), 1)

\* the height of a row drawn with the columns in cols: the greatest number
\* of lines over its cells, a cell of an expanded column being wrapped and
\* any other cell taking one line
RowHeight(s, data, row_idx, cols) ==
    LET lines == {cell_lines(s, data, At(data.rows, row_idx), c) : c \in cols} \cup {1}
    IN  CHOOSE n \in lines : \A m \in lines : m <= n

RECURSIVE HeightOfRows(_, _, _, _)
HeightOfRows(s, data, row_idxs, cols) ==
    IF row_idxs = {} THEN 0
    ELSE LET r == CHOOSE x \in row_idxs : TRUE
         IN  RowHeight(s, data, r, cols) + HeightOfRows(s, data, row_idxs \ {r}, cols)

\* the number of rows from scroll_y on whose cumulative height stays within
\* available_height, and 1 when there is none
RowsThatFit(s, data, cols, available_height) ==
    LET counts == {0} \cup
                  {n \in 1..(Len(data.rows) - s.scroll_y) :
                      HeightOfRows(s, data, s.scroll_y..(s.scroll_y + n - 1), cols)
                          <= available_height}
        most == CHOOSE n \in counts : \A m \in counts : m <= n
    IN  Max(most, 1)

\* C34: for table data with at least one row, calculate_visible_data_rows
\* and calculate_visible_data_rows_from_height return the number of rows
\* from scroll_y on whose cumulative height stays within the available
\* height, the height of a row being the greatest line count over its cells
\* (wrapped in an expanded column, one line otherwise), and at least 1.
C34_RowsThatFit ==
    (IsSome(state.table_data) /\ RowCount(state) >= 1)
      => LET data == Unwrap(state.table_data)
             h == state.last_table_area_height
         IN  /\ calculate_visible_data_rows_from_height(state, h, data)
                   = RowsThatFit(state, data, nav_visible_cols(state, data), SatSub(h, 3))
             /\ \A w \in AreaWidths :
                   LET packed == PackColumns(state, data, state.scroll_x, 0, SatSub(w, 2))
                       cols == IF packed = {} /\ state.scroll_x < Len(data.columns)
                               THEN {state.scroll_x} ELSE packed
                   IN  calculate_visible_data_rows(state, w, h, data)
                          = RowsThatFit(state, data, cols, SatSub(h, 3))

\* ---------------------------------------------------------------------
\* The left-hand panel to return to (C35)
\* ---------------------------------------------------------------------

\* C35: last_left_panel is always DatabaseList or TableList, and Tab
\* (next_panel) in MainContent makes the left-hand panel that was active
\* most recently the active panel, whichever way that panel was reached.
C35_ReturnToRecentLeft ==
    [][/\ state'.last_left_panel \in LeftPanels
       /\ (/\ last_op' = "Tab"
           /\ state.active_panel = "MainContent"
           /\ ~state.inspect_mode
           /\ ~state.database_dropdown_expanded)
            => state'.active_panel = app.recent_left_panel]_vars

\* ---------------------------------------------------------------------
\* Column expansion (C36)
\* ---------------------------------------------------------------------

\* render_table_widget: whether data column data_col_idx is drawn expanded
render_is_expanded(s, data_col_idx) ==
    is_column_expanded(s, render_virtual_col_idx(s, data_col_idx))

\* the keys that load a table, move the column selection, expand, hide and
\* show columns of the narrow table
NextExpand ==
    \/ Key2
    \/ EnterSelectTable
    \/ ColumnLeft
    \/ ColumnRight
    \/ EnterToggleExpansion
    \/ KeyModify
    \/ KeyToggleVisibility
    \/ EnterConfirmModify

SpecExpand == Init /\ [][NextExpand]_vars

\* the position of the selected column of s among the visible columns
VisiblePosition(s) ==
    IF IsSome(s.selected_column)
    THEN Position(get_visible_column_names(s), Unwrap(s.selected_column))
    ELSE None

\* C36: Enter in the table viewer (toggle_column_expansion) adds the
\* position of the selected column among the visible columns to the
\* expanded set when it is absent and removes it when it is present; and
\* the renderer draws a data column expanded exactly when its position in
\* the visible layout is in the set.
C36_ToggleExpanded ==
    [][/\ (/\ last_op' = "toggle_expansion"
           /\ IsSome(state.table_data)
           /\ IsSome(VisiblePosition(state)))
            => LET p == Unwrap(VisiblePosition(state))
               IN  state'.expanded_columns =
                      IF p \in state.expanded_columns
                      THEN state.expanded_columns \ {p}
                      ELSE state.expanded_columns \cup {p}
       /\ IsSome(state'.table_data)
            => \A i \in 0..(Len(Unwrap(state'.table_data).columns) - 1) :
                  render_is_expanded(state', i) <=> i \in state'.expanded_columns]_vars

\* ---------------------------------------------------------------------
\* Cancelling modify mode (C37)
\* ---------------------------------------------------------------------

\* a database whose one table is t1 (a, b, c); t2 (c, d) is what a data
\* file holds
InitCancel ==
    /\ app = [NewApp EXCEPT !.tables = <<"t1">>]
    /\ schema = SmallSchema
    /\ now = 0
    /\ call = None
    /\ last_op = "init"

\* modify mode with its reorders, left by Enter or Esc, and the import of
\* a table from the table list
NextCancel ==
    \/ Key2
    \/ EnterSelectTable
    \/ ColumnLeft
    \/ KeyModify
    \/ ReorderStep
    \/ EnterConfirmModify
    \/ EscCancelModify
    \/ KeyImport
    \/ TableNameChar
    \/ TableNameEnter
    \/ FileBrowserEsc
    \/ FileBrowserKey

SpecCancel == InitCancel /\ [][NextCancel]_vars

\* the virtual column order s keeps for table t
OrderOf(s, t) ==
    IF IsSome(s.column_order[t]) THEN Unwrap(s.column_order[t]) ELSE schema[t]

\* C37: Esc in modify mode is a rollback: whatever keys came between, the
\* virtual order of the table that was being modified is again the one it
\* had when modify mode was entered, and the order of no other table has
\* changed; Enter in modify mode keeps the column orders as they are.
C37_CancelRollsBack ==
    [][/\ (last_op' = "m" /\ ~state.is_modifying /\ state'.is_modifying)
            => state'.modify_backup_column_order = Some(get_virtual_column_order(state))
       /\ (state.is_modifying /\ state'.is_modifying)
            => state'.modify_backup_column_order = state.modify_backup_column_order
       /\ (last_op' = "cancel_modify" /\ state.is_modifying /\ IsSome(app.modified_table))
            => LET t == Unwrap(app.modified_table)
               IN  /\ ~state'.is_modifying
                   /\ OrderOf(state', t) = Unwrap(state.modify_backup_column_order)
                   /\ \A u \in TableNames \ {t} :
                         state'.column_order[u] = state.column_order[u]
       /\ (last_op' = "confirm_modify" /\ state.is_modifying)
            => /\ ~state'.is_modifying
               /\ state'.column_order = state.column_order]_vars

\* ---------------------------------------------------------------------
\* Cancelling a filter search (C38)
\* ---------------------------------------------------------------------

\* C38: after Esc cancels a filter search, the table data on display is
\* the result of a query for the committed filters: the rows a live
\* preview fetched during the search are not left on display.
C38_CancelDropsPreview ==
    [][(last_op' = "search_esc" /\ IsSome(state'.table_data))
         => ~app'.shown_preview]_vars

\* ---------------------------------------------------------------------
\* DatabaseManager (C39)
\* ---------------------------------------------------------------------

\* DatabaseManager::add_database(name, path): `opened` is whether the
\* connection opens and its table list can be read
add_database(a, name, opened) ==
    IF opened
    THEN [a EXCEPT !.connections = @ \cup {name},
                   !.databases = Append(@, name)]
    ELSE a

\* DatabaseManager::remove_database(name)
remove_database(a, name) ==
    IF name \in a.connections
    THEN [a EXCEPT !.connections = @ \ {name},
                   !.databases = FilterSeq(@, Range(@) \ {name}),
                   !.current_database = IF @ = Some(name) THEN None ELSE @]
    ELSE a

\* DatabaseManager::set_current_database(name)
set_current_database(a, name) ==
    IF name \in a.connections
    THEN [a EXCEPT !.current_database = Some(name)]
    ELSE a

\* whether the method returns Ok
add_database_ok(a, name, opened) == opened
remove_database_ok(a, name) == name \in a.connections
set_current_database_ok(a, name) == name \in a.connections

\* the names databases are added under, and the longest database list
DatabaseNames == {"db", "d1", "d2"}
MaxDatabases == 4

\* a call of a DatabaseManager method, with the Result it returns
ManagerCall(fn, name, ok, a2) ==
    /\ app.running
    /\ app' = a2
    /\ call' = Some([fn |-> fn, name |-> name, ok |-> ok])
    /\ last_op' = fn
    /\ UNCHANGED <<schema, now>>

CallAddDatabase ==
    \E name \in DatabaseNames, opened \in BOOLEAN :
       /\ Len(app.databases) < MaxDatabases
       /\ ManagerCall("add_database", name, add_database_ok(app, name, opened),
                      add_database(app, name, opened))

CallRemoveDatabase ==
    \E name \in DatabaseNames :
       ManagerCall("remove_database", name, remove_database_ok(app, name),
                   remove_database(app, name))

CallSetCurrentDatabase ==
    \E name \in DatabaseNames :
       ManagerCall("set_current_database", name, set_current_database_ok(app, name),
                   set_current_database(app, name))

NextManager ==
    \/ CallAddDatabase
    \/ CallRemoveDatabase
    \/ CallSetCurrentDatabase

SpecManager == Init /\ [][NextManager]_vars

\* C39: under add_database, remove_database and set_current_database the
\* database list and the connection map hold the same names, no name is
\* listed twice, and current_database, when set, names a connected
\* database; removing the current database unsets it, and selecting an
\* unknown name fails and changes nothing.
C39_ManagerConsistent ==
    [][/\ Range(app'.databases) = app'.connections
       /\ \A i, j \in 1..Len(app'.databases) :
             app'.databases[i] = app'.databases[j] => i = j
       /\ IsSome(app'.current_database)
             => Unwrap(app'.current_database) \in app'.connections
       /\ (last_op' = "remove_database" /\ app.current_database = Some(Unwrap(call').name)
           /\ Unwrap(call').ok)
             => app'.current_database = None
       /\ (last_op' = "set_current_database"
           /\ Unwrap(call').name \notin app.connections)
             => ~Unwrap(call').ok /\ app' = app]_vars

\* ---------------------------------------------------------------------
\* Databases created, deleted and disconnected under the dropdown (C40)
\* ---------------------------------------------------------------------

\* App::create_database_with_name: `opened` is whether the in-memory
\* connection opens
create_database_with_name(a, opened) ==
    LET db_name == Str(a.state.new_database_name)
    IN  IF ~add_database_ok(a, db_name, opened)
        THEN WithState(a, show_error(a.state))
        ELSE LET a1 == add_database(a, db_name, opened)
                 a2 == IF set_current_database_ok(a1, db_name)
                       THEN WithState(set_current_database(a1, db_name),
                                      select_database(a1.state, db_name))
                       ELSE a1
                 a3 == [sync_selected_db_index(a2) EXCEPT !.selected_table_index = 0]
             IN  WithState(a3, show_success(a3.state))

\* App::delete_database(db_name)
delete_database(a, db_name) ==
    IF ~remove_database_ok(a, db_name)
    THEN WithState(a, show_error(a.state))
    ELSE LET a1 == [sync_selected_db_index(remove_database(a, db_name))
                      EXCEPT !.selected_table_index = 0]
         IN  WithState(a1, show_success(a1.state))

\* App::immediate_delete, in the database list
immediate_delete(a) ==
    LET index == IF a.state.database_dropdown_expanded
                 THEN a.state.dropdown_selected_index
                 ELSE a.selected_db_index
    IN  IF InRange(a.databases, index)
        THEN delete_database(a, At(a.databases, index))
        ELSE a

\* DatabaseWorkflows::disconnect_current_database
disconnect_current_database(a) ==
    IF ~IsSome(a.current_database) \/ Unwrap(a.current_database) = "memory"
       \/ ~remove_database_ok(a, Unwrap(a.current_database))
    THEN a
    ELSE LET a1 == remove_database(a, Unwrap(a.current_database))
         IN  WithState(a1, [show_info(a1.state) EXCEPT !.selected_database = None,
                                                       !.selected_table = None])

\* Enter in the database name
NameEnter ==
    /\ state.is_entering_database_name
    /\ Trim(state.new_database_name) # <<>>
    /\ Len(app.databases) < MaxDatabases
    /\ \E opened \in BOOLEAN :
          LET a1 == create_database_with_name(Begin, opened)
          IN  Step("name_enter", WithState(a1, cancel_database_name_input(a1.state)))

\* 'D' in the database list
KeyImmediateDelete ==
    /\ NormalMode /\ state.active_panel = "DatabaseList"
    /\ Step("D", immediate_delete(Begin))

\* 'x'
KeyDisconnect ==
    /\ NormalMode
    /\ Step("x", IF IsSome(app.current_database)
                 THEN [sync_selected_db_index(disconnect_current_database(Begin))
                         EXCEPT !.selected_table_index = 0]
                 ELSE Begin)

NextDropdown ==
    \/ KeyNewDatabase
    \/ NameChar
    \/ NameEsc
    \/ NameEnter
    \/ ArrowKey
    \/ EnterDatabaseList
    \/ EscDropdown
    \/ KeyImmediateDelete
    \/ KeyDisconnect

SpecDropdown == Init /\ [][NextDropdown]_vars

\* C40: whenever the database dropdown is expanded and at least one
\* database exists, dropdown_selected_index is an index into the database
\* list, also after databases were deleted or disconnected.
C40_DropdownIndexValid ==
    (state.database_dropdown_expanded /\ Len(app.databases) >= 1)
        => state.dropdown_selected_index < Len(app.databases)

====
